---- MODULE Spec2Model ----
(***************************************************************************)
(* A model of the CBOR (RFC 7049) library DamnWidget/cbor: the Parser      *)
(* (scan, parseInformation, buflen), the Decoder (Decode, checkTypes, the  *)
(* typed scalar readers, the record decoder) and the composer/Encoder for  *)
(* scalars.                                                                *)
(*                                                                         *)
(* Representation.  A byte is a number in 0..255 and a byte string is a    *)
(* sequence of bytes.  Go integers of 16, 32 and 64 bits do not fit the    *)
(* model checker's integers, so every fixed-width integer is kept as its   *)
(* big-endian bit pattern (a sequence of width/8 bytes): uint8(111) is     *)
(* <<111>>, int8(-112) is <<144>>, uint64(300) is <<0,0,0,0,0,0,1,44>>.    *)
(* Conversions, complements and comparisons work on the bit patterns.      *)
(*                                                                         *)
(* A Go call either returns or panics.  Operators that model code which    *)
(* can panic return a record with a field st: "ok" (returned, err = nil),  *)
(* "err" (returned an error), "panicE" (panicked with a value that         *)
(* implements error) or "panicS" (panicked with a value that does not,     *)
(* such as a string).                                                      *)
(***************************************************************************)
EXTENDS Integers, Sequences, FiniteSets, TLC

VARIABLES
    parser,   \* the Parser of the decoder: r (unread bytes of the source),
              \* mr (how many bytes one Read call of the source returns at
              \* most), header, indefinite, buf, off
    strict,   \* Decoder.strict
    dst,      \* the destination handed to the last Decode (type and value)
    w,        \* the bytes written to the Encoder's io.Writer
    ret,      \* what the last call returned
    input,    \* the bytes the source held when the decoder was created
    enc,      \* the Encoder: canonical, and its composer's canonical
    extensionTagDec,   \* the global register of tag handlers
    extensionsDec      \* the global register of type handlers

vars == <<parser, strict, dst, w, ret, input, enc, extensionTagDec, extensionsDec>>

----------------------------------------------------------------------------
(* Bytes and bit patterns *)

Byte == 0..255

Min(a, b) == IF a < b THEN a ELSE b

Take(s, n) == SubSeq(s, 1, Min(n, Len(s)))

Drop(s, n) == SubSeq(s, n + 1, Len(s))

Zeros(n) == [i \in 1..n |-> 0]

\* ^x on an unsigned bit pattern: every byte complemented
Compl(b) == [i \in 1..Len(b) |-> 255 - b[i]]

\* uintN(x) / intN(x) of a narrower or wider pattern: the low n bytes,
\* filled with the byte fill on the left (0 for unsigned, 0 or 255 for signed)
Resize(b, n, fill) ==
    IF Len(b) >= n THEN SubSeq(b, Len(b) - n + 1, Len(b))
    ELSE [i \in 1..(n - Len(b)) |-> fill] \o b

ZeroExt(b, n) == Resize(b, n, 0)

SignExt(b, n) == Resize(b, n, IF Len(b) > 0 /\ b[1] >= 128 THEN 255 ELSE 0)

\* a bit pattern without its leading zero bytes: two patterns denote the same
\* unsigned number iff their stripped forms are equal
RECURSIVE Strip(_)
Strip(b) == IF Len(b) > 0 /\ b[1] = 0 THEN Strip(Tail(b)) ELSE b

\* the largest length the model distinguishes; int(x) of a larger unsigned
\* value is reported as Huge (more than any source of the model holds)
Huge == 1000000

\* the number a short bit pattern denotes, capped at Huge
RECURSIVE BE(_)
BE(b) ==
    IF Len(b) = 0 THEN 0
    ELSE IF Len(b) > 2 THEN (IF Strip(b) = Strip(Resize(b, 2, 0)) THEN BE(Resize(b, 2, 0)) ELSE Huge)
    ELSE IF Len(b) = 1 THEN b[1]
    ELSE b[1] * 256 + b[2]

\* int(x) for x a uint64 pattern: negative when the top bit is set
ToInt(b) == IF Len(b) = 8 /\ b[1] >= 128 THEN -1 ELSE BE(b)

----------------------------------------------------------------------------
(* Program constants *)

cborUnsignedInt == 0
cborNegativeInt == 1
cborByteString == 2
cborTextString == 3
cborDataArray == 4
cborDataMap == 5
cborTag == 6
cborNC == 7

cborSmallInt == 23
cborUint8 == 24
cborUint16 == 25
cborUint32 == 26
cborUint64 == 27
cborIndefinite == 31

cborFalse == 20
cborTrue == 21
cborNil == 22
cborUndef == 23

cborBreak == 255
absoluteFalse == 244
absoluteTrue == 245
absoluteNil == 246
absoluteUndef == 247

cborBigNum == 2

absoluteFloat16 == 249

absoluteFloat32 == 250

absoluteFloat64 == 251

absoluteDecimalFraction == 196

absoluteBigFloat == 197

cborFloat16 == 25

----------------------------------------------------------------------------
(* Parser *)

NewParser(r, mr) ==
    [r |-> r, mr |-> mr, header |-> 0, indefinite |-> FALSE, buf |-> <<>>, off |-> 0]

\* p.r.Read(data) with len(data) = n > 0: the source hands over at most mr
\* bytes per call; at end of input it returns 0 and io.EOF
Read(p, n) ==
    IF Len(p.r) = 0 THEN [p |-> p, n |-> 0, data |-> <<>>, err |-> "EOF"]
    ELSE LET k == Min(n, Min(Len(p.r), p.mr))
         IN [p |-> [p EXCEPT !.r = Drop(p.r, k)], n |-> k,
             data |-> Take(p.r, k), err |-> "nil"]

scan(p, n) ==
    IF n <= 0 THEN [p |-> p, n |-> 0, data |-> <<>>, err |-> "nil"]
    ELSE LET after(rd) ==
                 IF rd.err # "nil" THEN [p |-> rd.p, n |-> 0, data |-> <<>>, err |-> rd.err]
                 ELSE IF rd.n < n THEN [p |-> rd.p, n |-> 0, data |-> <<>>, err |-> "ParserErr"]
                 ELSE [p |-> [rd.p EXCEPT !.off = 0], n |-> rd.n, data |-> rd.data, err |-> "nil"]
         IN after(Read(p, n))

scan1(p) ==
    LET after(s) ==
            IF s.err # "nil" THEN [p |-> s.p, b |-> 0, err |-> s.err]
            ELSE [p |-> s.p, b |-> s.data[1], err |-> "nil"]
    IN after(scan(p, 1))

\* the stub the code calls for a tag header with additional info 24..30:
\* it reads nothing and returns its zero-valued named results
parseTagInformation(p, infotype) == [p |-> p, major |-> 0, info |-> 0, err |-> "nil"]

parseInformation(p0) ==
    LET filled(sc, major, infotype) ==
            [p |-> [sc.p EXCEPT !.buf = sc.data], major |-> major,
             info |-> infotype, err |-> sc.err]
        header(s, p, major, infotype) ==
            IF s.err # "nil" THEN [p |-> p, major |-> 0, info |-> 0, err |-> s.err]
            ELSE IF infotype <= cborSmallInt
                 THEN [p |-> [p EXCEPT !.buf = <<infotype>>], major |-> major,
                       info |-> infotype, err |-> "nil"]
            ELSE IF infotype = cborIndefinite
                 THEN IF major < cborByteString \/ (major > cborDataMap /\ major # cborNC)
                      THEN [p |-> p, major |-> major, info |-> 0, err |-> "ParserErr"]
                      ELSE [p |-> [p EXCEPT !.indefinite = TRUE], major |-> major,
                            info |-> infotype, err |-> "nil"]
            ELSE IF major = cborTag THEN parseTagInformation(p, infotype)
            ELSE IF infotype >= 28 /\ infotype <= 30
                 THEN [p |-> p, major |-> major, info |-> 0, err |-> "ParserErr"]
            ELSE filled(scan(p, 2 ^ (infotype - 24)), major, infotype)
        scanned(s) == header(s, [s.p EXCEPT !.header = s.b], s.b \div 32, s.b % 32)
    IN scanned(scan1(p0))

isBreak(p) == p.header = cborBreak

isNil(p) == p.header = absoluteNil

isUndef(p) == p.header = absoluteUndef

\* p.read(n): the next n bytes of the scratch buffer; panics with a string
\* when the buffer holds fewer
read(p, n) ==
    IF n > Len(p.buf) - p.off THEN [p |-> p, st |-> "panicS", v |-> <<>>]
    ELSE [p |-> [p EXCEPT !.off = p.off + n], st |-> "ok",
          v |-> SubSeq(p.buf, p.off + 1, p.off + n)]

parseUint8(p) == read(p, 1)

parseUint16(p) == read(p, 2)

parseUint32(p) == read(p, 4)

parseUint64(p) == read(p, 8)

\* buflen() as a uint64 bit pattern
buflen(p) ==
    LET info == p.header % 32
        widened(rd) == [p |-> rd.p, st |-> rd.st, v |-> ZeroExt(rd.v, 8)]
    IN IF info <= cborSmallInt THEN [p |-> p, st |-> "ok", v |-> ZeroExt(<<info>>, 8)]
       ELSE IF Len(p.buf) \in {1, 2, 4, 8} THEN widened(read(p, Len(p.buf)))
       ELSE [p |-> p, st |-> "ok", v |-> Zeros(8)]

parseBool(p) ==
    LET test(b) == [p |-> b.p, st |-> b.st, v |-> IF b.st = "ok" THEN b.v[8] # cborFalse ELSE FALSE]
    IN test(buflen(p))

----------------------------------------------------------------------------
(* Destinations.  A type is a record [k, fields]: k is the Go kind or type  *)
(* name and fields the fields of a struct (name, cbor tag, type), empty for *)
(* every other type.  A value is a sequence: the bit pattern of a number,   *)
(* <<0>> or <<1>> for a boolean, the bytes of a string, the field values of *)
(* a struct in field order.                                                 *)

Ty(k) == [k |-> k, fields |-> <<>>]

StructTy(fields) == [k |-> "struct", fields |-> fields]

Field(name, tag, t) == [name |-> name, tag |-> tag, t |-> t]

UintKinds == {"uint8", "uint16", "uint32", "uint64"}

IntKinds == {"int8", "int16", "int32", "int64"}

FloatKinds == {"float16", "float32", "float64"}

\* bytes of a value of an integer or float kind
Width(k) ==
    CASE k \in {"uint8", "int8"} -> 1
      [] k \in {"uint16", "int16", "float16"} -> 2
      [] k \in {"uint32", "int32", "float32"} -> 4
      [] k \in {"uint64", "int64", "float64", "int", "uint"} -> 8
      [] OTHER -> 0

\* a big.Int: its sign and the big-endian bytes of its absolute value
BigInt(neg, abs) == [neg |-> neg, abs |-> abs]

\* reflect.Zero / the value of a declared variable
RECURSIVE ZeroOf(_)
ZeroOf(t) ==
    IF t.k = "struct" THEN [i \in 1..Len(t.fields) |-> ZeroOf(t.fields[i].t)]
    ELSE IF t.k = "bool" THEN <<0>>
    ELSE IF t.k = "float16" THEN Zeros(4)
    ELSE IF t.k = "bigInt" THEN BigInt(FALSE, <<>>)
    ELSE Zeros(Width(t.k))

BoolVal(b) == IF b THEN <<1>> ELSE <<0>>

----------------------------------------------------------------------------
(* Decoder: the typed readers *)

\* expectedTypesMap[major][info]: the kind, or "" when the table has no entry
expectedTypesMap(major, info) ==
    CASE major = cborUnsignedInt /\ info = cborUint8 -> "uint8"
      [] major = cborUnsignedInt /\ info = cborUint16 -> "uint16"
      [] major = cborUnsignedInt /\ info = cborUint32 -> "uint32"
      [] major = cborUnsignedInt /\ info = cborUint64 -> "uint64"
      [] major = cborNegativeInt /\ info = cborUint8 -> "int8"
      [] major = cborNegativeInt /\ info = cborUint16 -> "int16"
      [] major = cborNegativeInt /\ info = cborUint32 -> "int32"
      [] major = cborNegativeInt /\ info = cborUint64 -> "int64"
      [] major = cborByteString /\ info \in cborUint8..cborUint64 -> "bytes"
      [] major = cborTextString /\ info \in cborSmallInt..cborUint64 -> "string"
      [] major = cborNC /\ info = cborUint8 -> "uint8"
      [] major = cborNC /\ info = cborUint16 -> "float16"
      [] major = cborNC /\ info = cborUint32 -> "float32"
      [] major = cborNC /\ info = cborUint64 -> "float64"
      [] OTHER -> ""

\* checkTypes that compares nothing
checkTypes_any(t, major, info) == "nil"

\* checkTypes(reflect.TypeOf(v), major, info) for v a pointer to a value of
\* type t.  The result is "nil", an error, or "panicE": reflect.PtrTo(nil)
\* raises a runtime error when neither the table nor the switch names a type.
\* "**uint8" and "*Kind" are types no destination of the model has.
checkTypes(t, major, info) ==
    LET switch ==
            CASE major = cborUnsignedInt ->
                   IF info <= cborSmallInt THEN "*uint8" ELSE "unknownInfo"
              [] major = cborByteString ->
                   IF info <= cborSmallInt \/ info = cborIndefinite
                   THEN "bytes" ELSE "unknownInfo"
              [] major = cborTextString ->
                   IF info <= cborSmallInt \/ info = cborIndefinite
                   THEN "string" ELSE "unknownInfo"
              [] major = cborNC ->
                   IF info = cborFalse \/ info = cborTrue THEN "bool"
                   ELSE IF info = cborNil \/ info = cborUndef THEN "Kind"
                   ELSE "unknownInfo"
              [] OTHER -> "panicE"
        compare(e) ==
            IF e \in {"unknownInfo", "panicE"} THEN e
            ELSE IF e # t.k THEN "mismatch"
            ELSE "nil"
        lookup(e0) == IF e0 # "" THEN compare(e0) ELSE compare(switch)
    IN IF major = cborTag \/ major = cborDataArray \/ major = cborDataMap THEN "nil"
       ELSE lookup(expectedTypesMap(major, info))

\* decodeUint8 .. decodeUint64
decodeUintN(p, n) == read(p, n)

\* decodeInt8 .. decodeInt64: intN(^decodeUintN())
decodeIntN(p, n) ==
    LET compl(u) == [u EXCEPT !.v = IF u.st = "ok" THEN Compl(u.v) ELSE <<>>]
    IN compl(decodeUintN(p, n))

\* decodeUint: buflen()
decodeUint(p) == buflen(p)

\* decodeInt: ^int64(buflen())
decodeInt(p) ==
    LET compl(b) == [b EXCEPT !.v = IF b.st = "ok" THEN Compl(b.v) ELSE <<>>]
    IN compl(buflen(p))

\* decodeFloat16 / 32 / 64: the bits read from the scratch buffer
decodeFloatN(p, n) == read(p, n)

decodeBool(p) ==
    LET val(b) == [p |-> b.p, st |-> b.st, v |-> BoolVal(b.v)]
    IN val(parseBool(p))

\* checkErr(err): panics with the error's text, a string
RECURSIVE decodeIndefiniteBytes(_, _)
decodeIndefiniteBytes(p, buf) ==
    LET next(sc, pi) ==
            IF pi.err # "nil" THEN [p |-> pi.p, st |-> "panicE", v |-> <<>>]
            ELSE decodeIndefiniteBytes(pi.p, buf \o sc.data)
        chunk(n, sc) ==
            IF sc.err # "nil" THEN [p |-> sc.p, st |-> "panicS", v |-> <<>>]
            ELSE IF sc.n < n THEN [p |-> sc.p, st |-> "panicE", v |-> <<>>]
            ELSE next(sc, parseInformation(sc.p))
        sized(bl, n) ==
            IF bl.st # "ok" THEN [p |-> bl.p, st |-> bl.st, v |-> <<>>]
            ELSE chunk(n, scan(bl.p, n))
        len(bl) == sized(bl, ToInt(bl.v))
    IN IF isBreak(p) THEN [p |-> p, st |-> "ok", v |-> buf]
       ELSE len(buflen(p))

decodeBytes(p) ==
    LET info == p.header % 32
        payload(sc) ==
            IF sc.err # "nil" THEN [p |-> sc.p, st |-> "panicS", v |-> <<>>]
            ELSE [p |-> sc.p, st |-> "ok", v |-> sc.data]
        len(bl) ==
            IF bl.st # "ok" THEN [p |-> bl.p, st |-> bl.st, v |-> <<>>]
            ELSE payload(scan(bl.p, ToInt(bl.v)))
    IN IF isNil(p) \/ isUndef(p) THEN [p |-> p, st |-> "ok", v |-> <<>>]
       ELSE IF info # cborIndefinite THEN len(buflen(p))
       ELSE decodeIndefiniteBytes(p, <<>>)

decodeString(p) == decodeBytes(p)

\* decodeDecimalFraction: the float32 is kept as the pair it is computed
\* from, <<mantissa, exponent>> (two int64 bit patterns)
decodeDecimalFraction(p0) ==
    LET mantissa(e, m) ==
            IF m.st # "ok" THEN [p |-> m.p, st |-> m.st, v |-> <<>>]
            ELSE [p |-> m.p, st |-> "ok", v |-> <<m.v, e.v>>]
        second(e, y) ==
            IF y.err # "nil" THEN [p |-> y.p, st |-> "panicS", v |-> <<>>]
            ELSE IF y.major > cborNegativeInt THEN [p |-> y.p, st |-> "panicE", v |-> <<>>]
            ELSE IF y.major = cborUnsignedInt THEN mantissa(e, decodeUint(y.p))
            ELSE mantissa(e, decodeInt(y.p))
        exponent(e) ==
            IF e.st # "ok" THEN [p |-> e.p, st |-> e.st, v |-> <<>>]
            ELSE second(e, parseInformation(e.p))
        first(x) ==
            IF x.err # "nil" THEN [p |-> x.p, st |-> "panicS", v |-> <<>>]
            ELSE IF x.major > cborNegativeInt THEN [p |-> x.p, st |-> "panicE", v |-> <<>>]
            ELSE exponent(decodeInt(x.p))
        array(a) ==
            IF a.err # "nil" THEN [p |-> a.p, st |-> "panicS", v |-> <<>>]
            ELSE IF a.major # cborDataArray THEN [p |-> a.p, st |-> "panicE", v |-> <<>>]
            ELSE first(parseInformation(a.p))
    IN array(parseInformation(p0))

\* float16toUint32: the float32 bits of a half-precision pattern (2 bytes)
RECURSIVE renormalize(_, _)
renormalize(m, e) == IF (m \div 1024) % 2 = 0 THEN renormalize(m * 2, e - 1) ELSE <<m, e>>

float16toUint32(b) ==
    LET y == b[1] * 256 + b[2]
        s == y \div 32768
        e0 == (y \div 1024) % 32
        m0 == y % 1024
        bits(e, m) == LET m23 == m * 8192
                      IN <<s * 128 + e \div 2, (e % 2) * 128 + m23 \div 65536,
                           (m23 \div 256) % 256, m23 % 256>>
    IN IF e0 = 0 /\ m0 = 0 THEN <<s * 128, 0, 0, 0>>
       ELSE IF e0 = 0
            THEN LET r == renormalize(m0, e0)
                 IN bits(r[2] + 1 + 112, r[1] % 1024)
       ELSE IF e0 = 31 THEN bits(255, m0)
       ELSE bits(e0 + 112, m0)

\* parseFloat16 / decodeFloat16: a float16 is a float32 holding the widened value
decodeFloat16(p) ==
    LET widen(rd) == [rd EXCEPT !.v = IF rd.st = "ok" THEN float16toUint32(rd.v) ELSE <<>>]
    IN widen(read(p, 2))

----------------------------------------------------------------------------
(* Decoder: decode(rv), the handlers chosen by kind, records *)

\* strings.Contains
Contains(t, sub) ==
    \E i \in 0..(Len(t) - Len(sub)) : SubSeq(t, i + 1, i + Len(sub)) = sub

\* strings.Split(t, ",")[0]
RECURSIVE BeforeComma(_)
BeforeComma(t) ==
    IF Len(t) = 0 \/ t[1] = 44 THEN <<>> ELSE <<t[1]>> \o BeforeComma(Tail(t))

\* strconv.Atoi of a string of decimal digits; -1 stands for its error
RECURSIVE Atoi(_)
Atoi(t) ==
    IF Len(t) = 0 \/ Len(t) > 3 \/ \E i \in 1..Len(t) : t[i] \notin 48..57 THEN -1
    ELSE IF Len(t) = 1 THEN t[1] - 48
    ELSE Atoi(SubSeq(t, 1, Len(t) - 1)) * 10 + (t[Len(t)] - 48)

\* ",index"
indexMark == <<44, 105, 110, 100, 101, 120>>

\* rv.FieldByName(name): the position of the field, 0 when there is none
FieldByName(t, name) ==
    IF \E i \in 1..Len(t.fields) : t.fields[i].name = name
    THEN CHOOSE i \in 1..Len(t.fields) : t.fields[i].name = name
    ELSE 0

\* lookupStructTag: the name of the first field whose tag selects the key
\* (trimming blanks does not change whether a tag contains ",index")
RECURSIVE lookupStructTagFrom(_, _, _, _)
lookupStructTagFrom(t, tag, array, i) ==
    IF i > Len(t.fields) THEN <<>>
    ELSE LET ft == t.fields[i].tag
         IN IF array /\ Contains(ft, indexMark) /\ Atoi(BeforeComma(ft)) = i - 1
            THEN t.fields[i].name
            ELSE IF ft # <<>> /\ Contains(ft, tag) THEN t.fields[i].name
            ELSE lookupStructTagFrom(t, tag, array, i + 1)

lookupStructTag(t, tag, array) == lookupStructTagFrom(t, tag, array, 1)

\* the result of a handler: the parser, how the call ended, the error and
\* the value the destination holds now
Res(p, st, e, v) == [p |-> p, st |-> st, e |-> e, v |-> v]

\* a scalar handler stores what its reader returned; a panic leaves the value
Store(rd, v) == Res(rd.p, rd.st, "nil", IF rd.st = "ok" THEN rd.v ELSE v)

RECURSIVE decode(_, _, _, _)

\* decodeStructFieldValue
decodeStructFieldValue(p, st, t, v, key, array) ==
    LET stored(f, d) == Res(d.p, d.st, d.e, [v EXCEPT ![f] = d.v])
        value(f, pi) ==
            IF f = 0
            THEN IF st THEN Res(p, "err", "StrictUnknown", v)
                 ELSE IF pi.err # "nil" THEN Res(pi.p, "err", pi.err, v)
                 ELSE Res(pi.p, "err", "forceContinue", v)
            ELSE IF pi.err # "nil" THEN Res(pi.p, "err", pi.err, v)
            ELSE stored(f, decode(pi.p, st, t.fields[f].t, v[f]))
        byName(f1) ==
            IF f1 # 0 THEN value(f1, parseInformation(p))
            ELSE value(FieldByName(t, lookupStructTag(t, key, array)), parseInformation(p))
    IN byName(FieldByName(t, key))

\* checkRtStructLength: op is "NOP", "BREAK" or "CONTINUE"
checkRtStructLength(p, st, i, nf) ==
    LET skip(pi) ==
            IF pi.err # "nil" THEN [p |-> pi.p, op |-> "NOP", err |-> pi.err]
            ELSE [p |-> pi.p, op |-> "CONTINUE", err |-> "nil"]
    IN IF i > nf
       THEN IF st THEN [p |-> p, op |-> "NOP", err |-> "StrictLen"]
            ELSE IF p.indefinite /\ isBreak(p) THEN [p |-> p, op |-> "BREAK", err |-> "nil"]
            ELSE skip(parseInformation(p))
       ELSE [p |-> p, op |-> "NOP", err |-> "nil"]

\* checkStructLength: the error and the length it stores
checkStructLength(p, st, nf, array) ==
    LET check(bl, nlen) ==
            IF bl.st # "ok" THEN [p |-> bl.p, st |-> bl.st, e |-> "nil", length |-> 0]
            ELSE IF nlen # nf /\ st THEN [p |-> bl.p, st |-> "err", e |-> "StrictLen", length |-> 0]
            ELSE [p |-> bl.p, st |-> "ok", e |-> "nil", length |-> nlen]
        halve(bl, l) == check(bl, IF array THEN l \div 2 ELSE l)
        len(bl) == halve(bl, ToInt(bl.v))
    IN IF ~p.indefinite THEN len(buflen(p))
       ELSE [p |-> p, st |-> "ok", e |-> "nil", length |-> 0]

\* decodeStructFieldKey: the key and the keys recorded so far
decodeStructFieldKey(p, st, shownKeys) ==
    LET seen(k) ==
            IF k.st # "ok" THEN [p |-> k.p, st |-> k.st, e |-> "nil", key |-> <<>>, shown |-> shownKeys]
            ELSE IF st /\ k.v \in shownKeys
                 THEN [p |-> k.p, st |-> "err", e |-> "StrictDup", key |-> <<>>, shown |-> shownKeys]
            ELSE [p |-> k.p, st |-> "ok", e |-> "nil", key |-> k.v,
                  shown |-> IF st THEN shownKeys \cup {k.v} ELSE shownKeys]
    IN seen(decodeString(p))

\* the loop of decodeInner, from iteration i on
RECURSIVE decodeInner(_, _, _, _, _, _, _, _, _)
decodeInner(p, st, t, v, nf, length, array, shownKeys, i) ==
    LET again(q, u, shown) == decodeInner(q, st, t, u, nf, length - 1, array, shown, i + 1)
        assigned(k, fv) ==
            IF fv.st = "err" /\ fv.e = "forceContinue" /\ ~st THEN again(fv.p, fv.v, k.shown)
            ELSE IF fv.st # "ok" THEN fv
            ELSE again(fv.p, fv.v, k.shown)
        keyed(k) ==
            IF k.st # "ok" THEN Res(k.p, k.st, k.e, v)
            ELSE assigned(k, decodeStructFieldValue(k.p, st, t, v, k.key, array))
        entry(pi) ==
            IF pi.err # "nil" THEN Res(pi.p, "err", pi.err, v)
            ELSE IF pi.p.indefinite /\ isBreak(pi.p) THEN Res(pi.p, "ok", "nil", v)
            ELSE IF pi.major < cborByteString \/ pi.major > cborTextString
                 THEN Res(pi.p, "err", "KeyNotString", v)
            ELSE keyed(decodeStructFieldKey(pi.p, st, shownKeys))
        checked(c) ==
            IF c.err # "nil" THEN Res(c.p, "err", c.err, v)
            ELSE IF c.op = "BREAK" THEN Res(c.p, "ok", "nil", v)
            ELSE IF c.op = "CONTINUE" THEN again(c.p, v, shownKeys)
            ELSE entry(parseInformation(c.p))
    IN IF length = 0 /\ ~p.indefinite THEN Res(p, "ok", "nil", v)
       ELSE checked(checkRtStructLength(p, st, i, nf))

\* decodekStruct
decodekStruct(p, st, t, v) ==
    LET major == p.header \div 32
        nf == Len(t.fields)
        array == major # cborDataMap
        inner(c) ==
            IF c.st # "ok" THEN Res(c.p, c.st, c.e, ZeroOf(t))
            ELSE decodeInner(c.p, st, t, ZeroOf(t), nf, c.length, array, {}, 0)
    IN inner(checkStructLength(p, st, nf, array))

\* i.SetBytes(b)
SetBytes(b) == BigInt(FALSE, Strip(b))

\* the bytes of a number plus one
RECURSIVE Inc(_)
Inc(b) ==
    IF b = <<>> THEN <<1>>
    ELSE IF b[Len(b)] < 255 THEN [b EXCEPT ![Len(b)] = @ + 1]
    ELSE Inc(SubSeq(b, 1, Len(b) - 1)) \o <<0>>

\* n.Neg(n)
Neg(n) == IF n.abs = <<>> THEN n ELSE BigInt(~n.neg, n.abs)

absolutePositiveBigNum == 194

absoluteNegativeBigNum == 195

\* the content of a bignum tag: a byte string read as a number
decodePositiveBigNum(p) ==
    LET content(db) ==
            [p |-> db.p, st |-> db.st, v |-> SetBytes(IF db.st = "ok" THEN db.v ELSE <<>>)]
        header(pi) ==
            IF pi.err # "nil" THEN [p |-> pi.p, st |-> "panicS", v |-> SetBytes(<<>>)]
            ELSE IF pi.major # cborByteString
                 THEN [p |-> pi.p, st |-> "panicE", v |-> SetBytes(<<>>)]
            ELSE content(decodeBytes(pi.p))
    IN header(parseInformation(p))

\* the same, plus one
decodeNegativeBigNum(p) ==
    LET content(db) ==
            [p |-> db.p, st |-> db.st,
             v |-> IF db.st = "ok" THEN BigInt(FALSE, Inc(Strip(db.v))) ELSE SetBytes(<<>>)]
        header(pi) ==
            IF pi.err # "nil" THEN [p |-> pi.p, st |-> "panicS", v |-> SetBytes(<<>>)]
            ELSE IF pi.major # cborByteString
                 THEN [p |-> pi.p, st |-> "panicE", v |-> SetBytes(<<>>)]
            ELSE content(decodeBytes(pi.p))
    IN header(parseInformation(p))

\* decodeBigFloat: the *big.Rat is kept as what it is computed from: for an
\* integer mantissa m (an int64 pattern) the float32 of m * 2^e, for a bignum
\* mantissa m the fraction m / (2 * |e|); e is an int64 pattern
decodeBigFloat(p0) ==
    LET fail(q, st) == [p |-> q, st |-> st, v |-> <<>>]
        fromInt64(e, m) ==
            IF m.st # "ok" THEN fail(m.p, m.st)
            ELSE [p |-> m.p, st |-> "ok", v |-> [big |-> FALSE, m |-> m.v, e |-> e.v]]
        fromBigInt(e, m) ==
            IF m.st # "ok" THEN fail(m.p, m.st)
            ELSE IF Strip(e.v) = <<>> THEN fail(m.p, "panicS")
            ELSE [p |-> m.p, st |-> "ok", v |-> [big |-> TRUE, m |-> m.v, e |-> e.v]]
        second(e, y) ==
            IF y.err # "nil" THEN fail(y.p, "panicS")
            ELSE IF y.major > cborNegativeInt /\ (y.major # cborTag /\ y.info # cborBigNum)
                 THEN fail(y.p, "panicE")
            ELSE IF y.major = cborUnsignedInt THEN fromInt64(e, decodeUint(y.p))
            ELSE IF y.major = cborNegativeInt THEN fromInt64(e, decodeInt(y.p))
            ELSE IF y.major = cborTag THEN fromBigInt(e, decodePositiveBigNum(y.p))
            ELSE fail(y.p, "panicS")
        exponent(e) ==
            IF e.st # "ok" THEN fail(e.p, e.st) ELSE second(e, parseInformation(e.p))
        first(x) ==
            IF x.err # "nil" THEN fail(x.p, "panicS")
            ELSE IF x.major > cborNegativeInt THEN fail(x.p, "panicE")
            ELSE exponent(decodeInt(x.p))
        array(a) ==
            IF a.err # "nil" THEN fail(a.p, "panicS")
            ELSE IF a.major # cborDataArray THEN fail(a.p, "panicS")
            ELSE first(parseInformation(a.p))
    IN array(parseInformation(p0))

\* blind: the value v read for the header, its type k and the kind vk that
\* blind reports ("" when the switch recognises nothing; "ptr" for a tag
\* without handler: no tag extension is registered).  The date-time, base64,
\* base16, URI, regexp and MIME tags are not part of this model: st is
\* "unmodelled" for them, and no source of the model holds one
blind(p) ==
    LET header == p.header
        info == header % 32
        got(d, vk, k) == [p |-> d.p, st |-> d.st, vk |-> vk, k |-> k, v |-> d.v]
        big(d) == [p |-> d.p, st |-> d.st, vk |-> "bigNum", k |-> "bigInt", v |-> Neg(d.v)]
        none(vk) == [p |-> p, st |-> "ok", vk |-> vk, k |-> "", v |-> <<>>]
        tag(bl) ==
            IF bl.st # "ok" THEN got(bl, "", "")
            ELSE IF ToInt(bl.v) \in 32..36
                 THEN [p |-> p, st |-> "unmodelled", vk |-> "", k |-> "", v |-> <<>>]
            ELSE none("ptr")
    IN CASE header \in {absoluteNil, absoluteUndef} -> none("Invalid")
         [] header \in {absoluteFalse, absoluteTrue} ->
              [p |-> p, st |-> "ok", vk |-> "bool", k |-> "bool",
               v |-> BoolVal(header = absoluteTrue)]
         [] header \in {absoluteFloat16, absoluteFloat32} ->
              IF info = cborFloat16 THEN got(decodeFloat16(p), "float32", "float16")
              ELSE got(decodeIntN(p, 4), "float32", "int32")
         [] header = absoluteFloat64 -> got(decodeFloatN(p, 8), "float64", "float64")
         [] header = cborByteString * 32 + cborIndefinite -> got(decodeBytes(p), "bytes", "bytes")
         [] header = cborTextString * 32 + cborIndefinite ->
              got(decodeString(p), "string", "string")
         [] header = cborDataArray * 32 + cborIndefinite -> none("slice")
         [] header = cborDataMap * 32 + cborIndefinite -> none("map")
         [] header = absolutePositiveBigNum -> got(decodePositiveBigNum(p), "bigNum", "bigInt")
         [] header = absoluteNegativeBigNum -> big(decodeNegativeBigNum(p))
         [] header = absoluteDecimalFraction ->
              got(decodeDecimalFraction(p), "decimalFraction", "float32")
         [] header = absoluteBigFloat -> got(decodeBigFloat(p), "bigFloat", "bigRat")
         [] header \in {192, 193, 213, 214, 215} ->
              [p |-> p, st |-> "unmodelled", vk |-> "", k |-> "", v |-> <<>>]
         [] header \div 32 = cborUnsignedInt ->
              (CASE info \in {cborSmallInt, cborUint8} -> got(decodeUintN(p, 1), "uint8", "uint8")
                 [] info = cborUint16 -> got(decodeUintN(p, 2), "uint16", "uint16")
                 [] info = cborUint32 -> got(decodeUintN(p, 4), "uint32", "uint32")
                 [] info = cborUint64 -> got(decodeUintN(p, 8), "uint64", "uint64")
                 [] info < cborSmallInt -> got(decodeUintN(p, 1), "uint8", "uint8")
                 [] OTHER -> none(""))
         [] header \div 32 = cborNegativeInt ->
              (CASE info \in {cborSmallInt, cborUint8} -> got(decodeIntN(p, 1), "int8", "int8")
                 [] info = cborUint16 -> got(decodeIntN(p, 2), "int16", "int16")
                 [] info = cborUint32 -> got(decodeIntN(p, 4), "int32", "int32")
                 [] info = cborUint64 -> got(decodeIntN(p, 8), "int64", "int64")
                 [] info < cborSmallInt -> got(decodeIntN(p, 1), "int8", "int8")
                 [] OTHER -> none(""))
         [] header \div 32 = cborByteString -> got(decodeBytes(p), "bytes", "bytes")
         [] header \div 32 = cborTextString -> got(decodeString(p), "string", "string")
         [] header \div 32 = cborDataArray -> none("slice")
         [] header \div 32 = cborDataMap -> none("map")
         [] header \div 32 = cborTag -> tag(buflen(p))
         [] OTHER -> none("")

\* a slice type with its element type
SliceTy(et) == [k |-> "slice", fields |-> <<>>, elem |-> et]

\* decodekInterface for a nil interface: the value blind returns is set with
\* its type; for an array or a map a new []interface{} or
\* map[interface{}]interface{} is decoded, the error of that decode is
\* dropped, and a pointer to it is set
decodekInterface(p, st, t, v) ==
    LET further(k, d) == Res(d.p, "ok", "nil", [k |-> k, v |-> d.v])
        set(b) ==
            IF b.st # "ok" THEN Res(b.p, b.st, "nil", v)
            ELSE IF b.vk = "" THEN Res(b.p, "err", "blind", v)
            ELSE IF b.vk = "Invalid" THEN Res(b.p, "ok", "nil", v)
            ELSE IF b.vk = "slice"
                 THEN further("slice", decode(b.p, st, SliceTy(Ty("interface")), <<>>))
            ELSE IF b.vk = "map"
                 THEN further("map", decode(b.p, st, [k |-> "map", fields |-> <<>>,
                                                      key |-> Ty("interface"),
                                                      elem |-> Ty("interface")], <<>>))
            ELSE IF b.vk = "ptr" THEN Res(b.p, "ok", "nil", v)
            ELSE Res(b.p, "ok", "nil", [k |-> b.k, v |-> b.v])
    IN set(blind(p))

\* the loop of decodekSlice over the n elements of a definite array, from
\* element i on
RECURSIVE sliceElems(_, _, _, _, _, _)
sliceElems(p, st, t, v, i, n) ==
    LET elem(d) ==
            IF d.st # "ok" THEN Res(d.p, d.st, d.e, [v EXCEPT ![i] = d.v])
            ELSE sliceElems(d.p, st, t, [v EXCEPT ![i] = d.v], i + 1, n)
        index(pi) ==
            IF pi.err # "nil" THEN Res(pi.p, "err", pi.err, v)
            ELSE IF i > Len(v) THEN Res(pi.p, "panicS", "nil", v)
            ELSE elem(decode(pi.p, st, t.elem, v[i]))
    IN IF i > n THEN Res(p, "ok", "nil", v) ELSE index(parseInformation(p))

\* the loop of decodekSlice for an indefinite array
RECURSIVE sliceStream(_, _, _, _)
sliceStream(p, st, t, v) ==
    LET elem(d) ==
            IF d.st # "ok" THEN Res(d.p, d.st, d.e, Append(v, d.v))
            ELSE sliceStream(d.p, st, t, Append(v, d.v))
        index(pi) ==
            IF pi.err # "nil" THEN Res(pi.p, "err", pi.err, v)
            ELSE IF isBreak(pi.p) THEN Res(pi.p, "ok", "nil", v)
            ELSE elem(decode(pi.p, st, t.elem, ZeroOf(t.elem)))
    IN index(parseInformation(p))

\* decodekSlice: a nil slice is made of the declared length
decodekSlice(p, st, t, v) ==
    LET made(q, n) ==
            IF v # <<>> THEN sliceElems(q, st, t, v, 1, n)
            ELSE IF n < 0 THEN Res(q, "panicS", "nil", v)
            ELSE sliceElems(q, st, t, [i \in 1..n |-> ZeroOf(t.elem)], 1, n)
        len(bl) ==
            IF bl.st # "ok" THEN Res(bl.p, bl.st, "nil", v) ELSE made(bl.p, ToInt(bl.v))
    IN IF p.header % 32 # cborIndefinite THEN len(buflen(p))
       ELSE sliceStream(p, st, t, <<>>)

\* a map type with its key and element types
MapTy(kt, vt) == [k |-> "map", fields |-> <<>>, key |-> kt, elem |-> vt]

\* rv.SetMapIndex(key, val), for a map held as a function of its keys
SetMapIndex(m, key, val) ==
    [x \in DOMAIN m \cup {key} |-> IF x = key THEN val ELSE m[x]]

\* generateKeyValue: one key and one value of the map m.  The errors of the
\* two decode calls are dropped.  The value of a key that m already holds is
\* rv.MapIndex(key), which cannot be set: the handler reads the item, its
\* Set call panics, decode recovers, and the value put back is the old one
\* (decodekStruct sets before it reads, so it panics before reading)
generateKeyValue(p, st, kt, vt, m) ==
    LET out(q, e, mm) == [p |-> q, e |-> e, m |-> mm]
        put(key, old, dv, q0) ==
            IF old
            THEN out(IF vt.k = "struct" /\ ~(isNil(q0) \/ isUndef(q0)) THEN q0 ELSE dv.p,
                     "nil", SetMapIndex(m, key, m[key]))
            ELSE out(dv.p, "nil", SetMapIndex(m, key, dv.v))
        val(key, pv) ==
            IF pv.err # "nil" THEN out(pv.p, pv.err, m)
            ELSE put(key, key \in DOMAIN m, decode(pv.p, st, vt, ZeroOf(vt)), pv.p)
        keyed(dk) ==
            IF st /\ dk.v \in DOMAIN m THEN out(dk.p, "StrictDup", m)
            ELSE val(dk.v, parseInformation(dk.p))
        first(pk) ==
            IF pk.err # "nil" THEN out(pk.p, pk.err, m)
            ELSE IF isBreak(pk.p) THEN out(pk.p, "EOF", m)
            ELSE keyed(decode(pk.p, st, kt, ZeroOf(kt)))
    IN first(parseInformation(p))

\* the loops of decodekMap: n pairs of a map of definite length ..
RECURSIVE mapPairs(_, _, _, _, _)
mapPairs(p, st, t, m, n) ==
    LET next(g) ==
            IF g.e # "nil" THEN Res(g.p, "err", g.e, g.m)
            ELSE mapPairs(g.p, st, t, g.m, n - 1)
    IN IF n <= 0 THEN Res(p, "ok", "nil", m)
       ELSE next(generateKeyValue(p, st, t.key, t.elem, m))

\* .. and pairs up to the break of an indefinite one
RECURSIVE mapStream(_, _, _, _)
mapStream(p, st, t, m) ==
    LET next(g) ==
            IF g.e = "nil" THEN mapStream(g.p, st, t, g.m)
            ELSE IF g.e = "EOF" /\ isBreak(g.p) THEN Res(g.p, "ok", "nil", g.m)
            ELSE Res(g.p, "err", g.e, g.m)
    IN next(generateKeyValue(p, st, t.key, t.elem, m))

decodekMap(p, st, t, v) ==
    LET pairs(bl) ==
            IF bl.st # "ok" THEN Res(bl.p, bl.st, "nil", v)
            ELSE mapPairs(bl.p, st, t, v, ToInt(bl.v))
    IN IF p.header % 32 # cborIndefinite THEN pairs(buflen(p))
       ELSE mapStream(p, st, t, v)

\* lookupFn and the handler it selects: decodekBool, decodekInt8 ..
\* decodekUint64, decodekInt, decodekUint, decodekFloat32 (also the handler
\* of a float16, whose kind is Float32), decodekFloat64, decodekString,
\* decodekStruct, decodekMap, decodekInterface; any other type is looked up among the registered
\* extensions, of which the model has none
handler(p, st, t, v) ==
    CASE t.k = "map" -> decodekMap(p, st, t, v)
      [] t.k = "interface" -> decodekInterface(p, st, t, v)
      [] t.k = "slice" -> decodekSlice(p, st, t, v)
      [] t.k = "struct" -> decodekStruct(p, st, t, v)
      [] t.k = "string" -> Store(decodeString(p), v)
      [] t.k = "int" -> Store(decodeInt(p), v)
      [] t.k = "uint" -> Store(decodeUint(p), v)
      [] t.k \in IntKinds -> Store(decodeIntN(p, Width(t.k)), v)
      [] t.k \in UintKinds -> Store(decodeUintN(p, Width(t.k)), v)
      [] t.k = "bool" -> Store(decodeBool(p), v)
      [] t.k \in {"float32", "float16"} -> Store(decodeFloatN(p, 4), v)
      [] t.k = "float64" -> Store(decodeFloatN(p, 8), v)
      [] OTHER -> Res(p, "err", "notRegistered", v)

\* decode(rv): nil and undef give the zero value; a panic of the handler is
\* recovered and returned as an error
decode(p, st, t, v) ==
    LET recovered(h) ==
            IF h.st \in {"panicS", "panicE"} THEN Res(h.p, "err", "recovered", h.v)
            ELSE h
    IN IF isNil(p) \/ isUndef(p) THEN Res(p, "ok", "nil", ZeroOf(t))
       ELSE recovered(handler(p, st, t, v))

\* the types Decode reads without reflection
TypedKinds == UintKinds \cup IntKinds \cup FloatKinds \cup {"bytes", "string", "bool"}

\* Decode(v) for v a non-nil pointer to a value v0 of type t.  st is "ok",
\* "err", or "panic" when a panic leaves the call: the deferred function
\* recovers every panic and asserts that its value is an error, which itself
\* panics for a value that is not one
Decode(p0, st, t, v0) ==
    LET negated(rd) == [p |-> rd.p, st |-> rd.st, v |-> Neg(rd.v)]
        typed(p, major) ==
            CASE t.k \in UintKinds -> decodeUintN(p, Width(t.k))
              [] t.k \in IntKinds -> decodeIntN(p, Width(t.k))
              [] t.k = "float16" -> decodeFloat16(p)
              [] t.k = "float32" ->
                   IF major = cborNC THEN decodeFloatN(p, 4) ELSE decodeDecimalFraction(p)
              [] t.k = "float64" -> decodeFloatN(p, 8)
              [] t.k = "bytes" -> decodeBytes(p)
              [] t.k = "string" -> decodeString(p)
              [] t.k = "bool" -> decodeBool(p)
              [] t.k = "bigInt" ->
                   IF v0.neg THEN negated(decodeNegativeBigNum(p)) ELSE decodePositiveBigNum(p)
              [] t.k = "bigRat" -> decodeBigFloat(p)
        deferred(rd) ==
            IF rd.st = "panicS" THEN Res(rd.p, "panic", "nil", v0)
            ELSE IF rd.st = "panicE" THEN Res(rd.p, "err", "recovered", v0)
            ELSE Res(rd.p, "ok", "nil", rd.v)
        switch(pi, ct) ==
            IF ct = "panicE" THEN Res(pi.p, "err", "recovered", v0)
            ELSE IF ct # "nil" THEN Res(pi.p, "err", ct, v0)
            ELSE IF t.k \notin TypedKinds \cup {"bigInt", "bigRat"} THEN decode(pi.p, st, t, v0)
            ELSE deferred(typed(pi.p, pi.major))
        header(pi) ==
            IF pi.err # "nil" THEN Res(pi.p, "err", pi.err, v0)
            ELSE switch(pi, checkTypes(t, pi.major, pi.info))
    IN header(parseInformation(p0))

----------------------------------------------------------------------------
(* composer and Encoder (the writer is a buffer that takes every byte) *)

\* uint64(l) for a length l
FromInt(l) == <<0, 0, 0, 0, 0, 0, l \div 256, l % 256>>

\* i <= the largest unsigned number of n bytes, for i a uint64 pattern
FitsIn(i, n) == Len(Strip(i)) <= n

\* i < 24
Below24(i) == Len(Strip(i)) = 0 \/ (Len(Strip(i)) = 1 /\ i[8] < 24)

composeInformation(out, major, info) == out \o <<major * 32 + info>>

composeUint8(out, b) ==
    IF b[1] < 24 THEN [w |-> out, n |-> 0, err |-> "CanonicalModeError"]
    ELSE [w |-> out \o b, n |-> 1, err |-> "nil"]

composeUint16(out, b) == [w |-> out \o b, n |-> 2, err |-> "nil"]

composeUint32(out, b) == [w |-> out \o b, n |-> 4, err |-> "nil"]

composeUint64(out, b) == [w |-> out \o b, n |-> 8, err |-> "nil"]

\* composeUint without the 16-bit form
composeUint_no16(out, i, t) ==
    IF Below24(i) THEN [w |-> composeInformation(out, t, i[8]), n |-> 1, err |-> "nil"]
    ELSE IF FitsIn(i, 1)
         THEN composeUint8(composeInformation(out, t, cborUint8), Resize(i, 1, 0))
    ELSE IF FitsIn(i, 4)
         THEN composeUint32(composeInformation(out, t, cborUint32), Resize(i, 4, 0))
    ELSE composeUint64(composeInformation(out, t, cborUint64), i)

composeUint(out, i, t) ==
    IF Below24(i) THEN [w |-> composeInformation(out, t, i[8]), n |-> 1, err |-> "nil"]
    ELSE IF FitsIn(i, 1)
         THEN composeUint8(composeInformation(out, t, cborUint8), Resize(i, 1, 0))
    ELSE IF FitsIn(i, 2)
         THEN composeUint16(composeInformation(out, t, cborUint16), Resize(i, 2, 0))
    ELSE IF FitsIn(i, 4)
         THEN composeUint32(composeInformation(out, t, cborUint32), Resize(i, 4, 0))
    ELSE composeUint64(composeInformation(out, t, cborUint64), i)

\* i is an int64 pattern: negative when its top bit is set
composeInt(out, i) ==
    IF i[1] >= 128 THEN composeUint(out, Compl(i), cborNegativeInt)
    ELSE composeUint(out, i, cborUnsignedInt)

composeBoolean(out, v) ==
    [w |-> out \o <<IF v = <<1>> THEN absoluteTrue ELSE absoluteFalse>>, err |-> "nil"]

composeBytes(out, b, major) ==
    LET payload(h) ==
            IF h.err # "nil" THEN [w |-> h.w, err |-> h.err]
            ELSE [w |-> h.w \o b, err |-> "nil"]
    IN payload(composeUint(out, FromInt(Len(b)), major))

composeString(out, s) == composeBytes(out, s, cborTextString)

\* composeBigUint(n): the tag byte, then n.Bytes() as a byte string
composeBigUint(out, n) == composeBytes(out \o <<absolutePositiveBigNum>>, n.abs, cborByteString)

\* composeBigInt(n): the tag byte, then n.Bytes() with its last byte
\* decremented (a byte, so 0 becomes 255) as a byte string
composeBigInt(out, n) ==
    LET buf == [n.abs EXCEPT ![Len(n.abs)] = (@ + 255) % 256]
    IN composeBytes(out \o <<absoluteNegativeBigNum>>, buf, cborByteString)

\* NewEncoder(w, options...): an option may set the encoder's canonical
\* field, or that of its composer
NewEncoder(canonical, composerCanonical) ==
    [canonical |-> canonical, strict |-> FALSE,
     composer |-> [canonical |-> composerCanonical, strict |-> FALSE]]

\* math.IsInf(f, 0) and math.IsNaN(f) for the bits b of a float32 or float64
IsInf(b) ==
    IF Len(b) = 4 THEN b[1] % 128 = 127 /\ b[2] = 128 /\ b[3] = 0 /\ b[4] = 0
    ELSE b[1] % 128 = 127 /\ b[2] = 240 /\ \A i \in 3..8 : b[i] = 0

IsNaN(b) ==
    IF Len(b) = 4 THEN b[1] % 128 = 127 /\ b[2] >= 128 /\ ~IsInf(b)
    ELSE b[1] % 128 = 127 /\ b[2] >= 240 /\ ~IsInf(b)

composeFloat32(out, b) == [w |-> out \o <<absoluteFloat32>> \o b, err |-> "nil"]

composeFloat64(out, b) == [w |-> out \o <<absoluteFloat64>> \o b, err |-> "nil"]

\* the composers are called without their neg argument
encodeNewInfinity(out, c, bits) ==
    LET composeCanonicalInfinity(neg) ==
            IF neg THEN <<249, 252, 0>> ELSE <<249, 124, 0>>
        composeInfinity(neg) ==
            IF neg THEN <<250, 255, 128, 0, 0>> ELSE <<250, 127, 128, 0, 0>>
        composeDoublePrecissionInfinity(neg) ==
            IF neg THEN <<251, 255, 240, 0, 0, 0, 0, 0, 0>>
            ELSE <<251, 127, 240, 0, 0, 0, 0, 0, 0>>
    IN IF c.canonical \/ bits = 16
       THEN [w |-> out \o composeCanonicalInfinity(FALSE), err |-> "nil"]
       ELSE IF bits = 32 THEN [w |-> out \o composeInfinity(FALSE), err |-> "nil"]
       ELSE IF bits = 64
            THEN [w |-> out \o composeDoublePrecissionInfinity(FALSE), err |-> "nil"]
       ELSE [w |-> out, err |-> "UnsupportedValueError"]

encodeNewNaN(out, c, bits) ==
    LET composeCanonicalNaN == <<249, 126, 0>>
        composeNaN == <<250, 127, 192, 0, 0>>
        composeDoublePrecissionNaN == <<251, 127, 248, 0, 0, 0, 0, 0, 0>>
    IN IF c.canonical \/ bits = 16 THEN [w |-> out \o composeCanonicalNaN, err |-> "nil"]
       ELSE IF bits = 32 THEN [w |-> out \o composeNaN, err |-> "nil"]
       ELSE IF bits = 64 THEN [w |-> out \o composeDoublePrecissionNaN, err |-> "nil"]
       ELSE [w |-> out, err |-> "UnsupportedValueError"]

\* floatEncoder(bits).encode for a float32 or a float64 of bits b
floatEncoder(out, c, bits, b) ==
    IF IsInf(b) THEN encodeNewInfinity(out, c, bits)
    ELSE IF IsNaN(b) THEN encodeNewNaN(out, c, bits)
    ELSE IF bits = 32 THEN composeFloat32(out, b)
    ELSE composeFloat64(out, b)

calculateInfoFromIntLength(l) ==
    LET infoHelper ==
            IF l <= 255 THEN cborUint8
            ELSE IF l <= 65535 THEN cborUint16
            ELSE cborUint32
    IN IF l < cborSmallInt THEN l ELSE infoHelper

\* encode(rv), the generic path; ord is the order in which rv.MapKeys()
\* returns the keys of a map (the maps of the model hold scalars); no case of
\* the switch on the kind takes a channel
RECURSIVE encode(_, _, _, _, _)
\* the loop of encodeStruct from field i on: buf and exportedFields
RECURSIVE encodeFields(_, _, _, _, _, _)
encodeFields(e, t, v, i, buf, exportedFields) ==
    LET f == t.fields[i]
        exported == f.name[1] \in 65..90
        key == IF f.tag # <<>> THEN f.tag ELSE f.name
        value(ks) ==
            IF ks.err # "nil" THEN [w |-> ks.w, n |-> exportedFields + 1, err |-> ks.err]
            ELSE encodeFields(e, t, v, i + 1, encode(ks.w, e, f.t, v[i], <<>>).w,
                              exportedFields + 1)
    IN IF i > Len(t.fields) THEN [w |-> buf, n |-> exportedFields, err |-> "nil"]
       ELSE IF ~exported \/ f.tag = <<45>>
            THEN encodeFields(e, t, v, i + 1, buf, exportedFields)
       ELSE value(composeString(buf, key))

\* encodeStruct: the fields go to a buffer, then the header byte of the
\* count and the buffer are written
encodeStruct(out, e, t, v) ==
    LET flush(b) ==
            IF b.err # "nil" THEN [w |-> out, err |-> b.err]
            ELSE [w |-> composeInformation(out, cborDataMap, calculateInfoFromIntLength(b.n))
                            \o b.w,
                  err |-> "nil"]
    IN flush(encodeFields(e, t, v, 1, <<>>, 0))

\* the loop of encodeMap over the keys in the order ord
RECURSIVE encodePairs(_, _, _, _, _)
encodePairs(out, e, t, v, ord) ==
    LET pair(k) ==
            encodePairs(encode(encode(out, e, t.key, k, <<>>).w, e, t.elem, v[k], <<>>).w,
                        e, t, v, Tail(ord))
    IN IF ord = <<>> THEN [w |-> out, err |-> "nil"] ELSE pair(Head(ord))

encodeMap(out, e, t, v, ord) ==
    LET pairs(h) ==
            IF h.err # "nil" THEN [w |-> h.w, err |-> h.err]
            ELSE encodePairs(h.w, e, t, v, ord)
    IN pairs(composeUint(out, FromInt(Len(ord)), cborDataMap))

encode(out, e, t, v, ord) ==
    LET result(r) == [w |-> r.w, err |-> r.err]
    IN CASE t.k = "bigInt" ->
              IF v.neg THEN result(composeBigInt(out, v)) ELSE result(composeBigUint(out, v))
         [] t.k = "bool" -> result(composeBoolean(out, v))
         [] t.k \in UintKinds -> result(composeUint(out, ZeroExt(v, 8), cborUnsignedInt))
         [] t.k \in IntKinds -> result(composeInt(out, SignExt(v, 8)))
         [] t.k = "float32" -> composeFloat32(out, v)
         [] t.k = "float64" -> composeFloat64(out, v)
         [] t.k = "string" -> result(composeString(out, v))
         [] t.k = "bytes" -> [w |-> composeBytes(out, v, cborByteString).w, err |-> "nil"]
         [] t.k = "map" -> encodeMap(out, e, t, v, ord)
         [] t.k = "struct" -> encodeStruct(out, e, t, v)
         [] OTHER -> [w |-> out, err |-> "nil"]

\* Encode(v) through fastPath, for v a boolean, an integer, a float32, a
\* float64, a []byte, a string or a big.Int; any other value takes the
\* generic path
Encode(out, e, t, v, ord) ==
    LET result(r) == [w |-> r.w, err |-> r.err]
    IN CASE t.k = "bool" -> result(composeBoolean(out, v))
         [] t.k \in IntKinds -> result(composeInt(out, SignExt(v, 8)))
         [] t.k \in UintKinds -> result(composeUint(out, ZeroExt(v, 8), cborUnsignedInt))
         [] t.k = "float32" -> floatEncoder(out, e.composer, 32, v)
         [] t.k = "float64" -> floatEncoder(out, e.composer, 64, v)
         [] t.k = "bytes" -> result(composeBytes(out, v, cborByteString))
         [] t.k = "string" -> result(composeString(out, v))
         [] t.k = "bigInt" ->
              IF v.neg THEN result(composeBigInt(out, v)) ELSE result(composeBigUint(out, v))
         [] OTHER -> encode(out, e, t, v, ord)

----------------------------------------------------------------------------
(* The parser on its own: scan, parseInformation and buflen called on a     *)
(* parser over a source of a header byte and up to MaxTail further bytes    *)

MaxTail == 9

MaxScan == 2

\* a source hands over one byte per Read call, or all it is asked for
ReadSizes == {1, Huge}

TailBytes == [i \in 1..(MaxTail + 1) |-> (16 * i + 1) % 256]

ParserInputs ==
    {<<>>} \cup {<<h>> \o SubSeq(TailBytes, 1, n) : h \in Byte, n \in {0, 1, 2, 4, 8, MaxTail}}

Idle == [op |-> "none"]

NoDst == [t |-> Ty("none"), v |-> <<>>]

InitParser ==
    /\ input \in ParserInputs
    /\ \E mr \in ReadSizes : parser = NewParser(input, mr)
    /\ strict = FALSE
    /\ dst = NoDst
    /\ w = <<>>
    /\ ret = Idle
    /\ enc = NewEncoder(FALSE, FALSE)
    /\ extensionTagDec = <<>>
    /\ extensionsDec = <<>>

PScan ==
    \E n \in -1..MaxScan :
        LET returned(s) ==
                /\ parser' = s.p
                /\ ret' = [op |-> "scan", before |-> parser, n |-> n, cnt |-> s.n,
                           data |-> s.data, err |-> s.err]
        IN /\ returned(scan(parser, n))
           /\ UNCHANGED <<strict, dst, w, input, enc, extensionTagDec, extensionsDec>>

PParseInformation ==
    LET returned(pi) ==
            /\ parser' = pi.p
            /\ ret' = [op |-> "parseInformation", before |-> parser, major |-> pi.major,
                       info |-> pi.info, err |-> pi.err]
    IN /\ returned(parseInformation(parser))
       /\ UNCHANGED <<strict, dst, w, input, enc, extensionTagDec, extensionsDec>>

PBuflen ==
    LET returned(b) ==
            /\ parser' = b.p
            /\ ret' = [op |-> "buflen", before |-> parser, st |-> b.st, v |-> b.v]
    IN /\ returned(buflen(parser))
       /\ UNCHANGED <<strict, dst, w, input, enc, extensionTagDec, extensionsDec>>

NextParser == PScan \/ PParseInformation \/ PBuflen

SpecParser == InitParser /\ [][NextParser]_vars

\* the header byte the last parseInformation read, its major type and its
\* additional info
HdrRead == ret.before.r[1]

HdrM == HdrRead \div 32

HdrA == HdrRead % 32

ParsedHeader == ret.op = "parseInformation" /\ ret.before.r # <<>>

\* C4: parseInformation returns a parse error for additional info 28, 29 and
\* 30 whatever the major type, and for additional info 31 with major type 0,
\* 1 or 6; additional info 31 is accepted exactly for major types 2, 3, 4, 5, 7.
C4_Rejection ==
    ParsedHeader =>
        /\ (HdrA \in 28..30 => ret.err = "ParserErr")
        /\ (HdrA = 31 /\ HdrM \in {0, 1, 6} => ret.err = "ParserErr")
        /\ (HdrA = 31 /\ HdrM \in {2, 3, 4, 5, 7} => ret.err = "nil")

\* C5: after parseInformation accepts a header (M, A) it has consumed, after
\* the header byte, no byte when A <= 23 and 1 << (A - 24) bytes when A is
\* 24..27, for every major type; it returns (M, A), and buflen() returns A or
\* the big-endian value of the bytes just read.
C5_LengthFit ==
    ParsedHeader /\ ret.err = "nil" /\ HdrA <= 27 =>
        LET used == Len(ret.before.r) - Len(parser.r) - 1
            arg == SubSeq(ret.before.r, 2, 1 + used)
        IN /\ used = IF HdrA <= 23 THEN 0 ELSE 2 ^ (HdrA - 24)
           /\ ret.major = HdrM /\ ret.info = HdrA
           /\ buflen(parser).st = "ok"
           /\ buflen(parser).v = ZeroExt(IF HdrA <= 23 THEN <<HdrA>> ELSE arg, 8)

\* C9: scan(n) with n > 0 returns the next n bytes and the count n if and
\* only if the source still holds n bytes, whatever the source returns per
\* Read call; with fewer bytes left it returns an error and no data; scan(n)
\* with n <= 0 returns an empty result and reads nothing.
C9_ScanExact ==
    ret.op = "scan" =>
        LET left == Len(ret.before.r)
            full == ret.err = "nil" /\ ret.cnt = ret.n /\ ret.data = Take(ret.before.r, ret.n)
        IN /\ (ret.n > 0 => (full <=> left >= ret.n))
           /\ (ret.n > 0 /\ left < ret.n => ret.err # "nil" /\ ret.data = <<>>)
           /\ (ret.n <= 0 => ret.err = "nil" /\ ret.cnt = 0 /\ ret.data = <<>>
                              /\ parser.r = ret.before.r)

----------------------------------------------------------------------------
(* The decoder on scalars and strings: NewDecoder over a source holding one *)
(* or two items, whole or cut short, then up to MaxDecodes calls of Decode, *)
(* each into a variable of any of the types Decode reads directly          *)

MaxDecodes == 2

\* first argument bytes: small, largest positive int8, top bit set, all ones
ArgBytes == {0, 111, 200, 255}

\* the additional infos of the scalar headers
ScalarInfos == {5, 20, 21, 22, 23, 24, 25, 26, 27}

\* header byte and argument of a scalar item
ScalarItem(m, a, b) ==
    <<m * 32 + a>> \o (IF a < 24 THEN <<>> ELSE <<b>> \o SubSeq(TailBytes, 1, 2 ^ (a - 24) - 1))

ScalarItems ==
    {ScalarItem(m, a, b) : m \in {cborUnsignedInt, cborNegativeInt, cborNC},
                           a \in ScalarInfos, b \in ArgBytes}

\* byte and text strings (definite, indefinite), an empty array, a bignum,
\* a decimal fraction; indefinite strings of no chunk, of three chunks the
\* first of them empty, of a chunk with a one-byte length; three more bignums
OtherItems ==
    { <<64>>, <<65, 1>>, <<98, 65, 66>>, <<95, 65, 1, 66, 2, 3, 255>>,
      <<127, 97, 65, 255>>, <<128>>, <<194, 65, 1>>, <<196, 130, 33, 25, 106, 179>>,
      <<127, 255>>, <<127, 96, 98, 65, 66, 97, 67, 255>>, <<95, 88, 1, 9, 255>>,
      <<195, 65, 1>>, <<194, 66, 1, 0>>, <<195, 66, 0, 255>> }

\* what a source may hold before a second item: a one-byte unsigned integer,
\* an empty indefinite byte string
FirstItems == { <<24, 111>>, <<95, 255>> }

\* the items that follow another one: scalars, a byte string, an indefinite
\* byte string of one chunk
SecondItems ==
    {ScalarItem(m, a, 200) : m \in {cborUnsignedInt, cborNegativeInt, cborNC}, a \in {23, 24, 25}}
        \cup { <<65, 1>>, <<95, 65, 1, 255>> }

Prefixes(s) == {SubSeq(s, 1, n) : n \in 0..Len(s)}

\* one item, or two, whole or cut short
DecodeInputs ==
    UNION ({Prefixes(i) : i \in ScalarItems \cup OtherItems}
             \cup {Prefixes(f \o i) : f \in FirstItems, i \in SecondItems})

DestTypes == {Ty(k) : k \in TypedKinds}

\* the value a variable holds from earlier use, different from its zero value
Mark(t) ==
    IF t.k = "struct" THEN ZeroOf(t)
    ELSE IF t.k = "bool" THEN <<1>>
    ELSE IF t.k \in {"string", "bytes"} THEN <<7>>
    ELSE [i \in 1..(IF t.k = "float16" THEN 4 ELSE Width(t.k)) |-> 7]

NewDecoder(r, mr, st) == [parser |-> NewParser(r, mr), strict |-> st]

Init ==
    /\ input \in DecodeInputs
    /\ \E mr \in ReadSizes :
          /\ parser = NewDecoder(input, mr, FALSE).parser
          /\ strict = NewDecoder(input, mr, FALSE).strict
    /\ dst = NoDst
    /\ w = <<>>
    /\ ret = [op |-> "new", calls |-> 0]
    /\ enc = NewEncoder(FALSE, FALSE)
    /\ extensionTagDec = <<>>
    /\ extensionsDec = <<>>

\* d.Decode(&x) for a variable x of type t holding v0
DecodeCall(t, v0) ==
    LET returned(d) ==
            /\ parser' = d.p
            /\ dst' = [t |-> t, v |-> d.v]
            /\ ret' = [op |-> "Decode", calls |-> ret.calls + 1, before |-> parser,
                       t |-> t, v0 |-> v0, st |-> d.st, e |-> d.e]
    IN /\ returned(Decode(parser, strict, t, v0))
       /\ UNCHANGED <<strict, w, input, enc, extensionTagDec, extensionsDec>>

DecodeScalar ==
    /\ ret.calls < MaxDecodes
    /\ \E t \in DestTypes : DecodeCall(t, Mark(t))

\* what a big.Int variable holds before the call: 0, 5, -1
BigStarts == {BigInt(FALSE, <<>>), BigInt(FALSE, <<5>>), BigInt(TRUE, <<1>>)}

\* d.Decode(a) for a *big.Int a
DecodeBig ==
    /\ ret.calls < MaxDecodes
    /\ \E v0 \in BigStarts : DecodeCall(Ty("bigInt"), v0)

\* d.Decode(&a) for a nil interface{} variable a, of a source that is empty
\* or starts with one of the headers of blind
DecodeBlind ==
    /\ ret.calls < MaxDecodes
    /\ parser.r # <<>> =>
          parser.r[1] \in {absoluteFalse, absoluteTrue, absoluteNil, absoluteUndef,
                           absolutePositiveBigNum, absoluteNegativeBigNum}
    /\ DecodeCall(Ty("interface"), <<>>)

Next == DecodeScalar

Spec == Init /\ [][Next]_vars

\* the calls that read a bignum
NextBignum == DecodeBig \/ DecodeBlind

SpecBignum == Init /\ [][NextBignum]_vars

\* the header the last Decode read, and the argument that followed it
DecHdr == ret.before.r[1]

DecM == DecHdr \div 32

DecA == DecHdr % 32

DecArg == SubSeq(ret.before.r, 2, 1 + 2 ^ (DecA - 24))

\* the last call was a Decode that read a header and its whole argument
DecodedItem ==
    /\ ret.op = "Decode"
    /\ ret.before.r # <<>>
    /\ DecA \in 24..27 => Len(ret.before.r) >= 1 + 2 ^ (DecA - 24) /\ ret.before.mr = Huge

\* C3: Decode returns normally, with success or with an error, for every
\* input and every destination; no panic leaves the call.
C3_NoPanic == ret.op = "Decode" => ret.st \in {"ok", "err"}

\* the type of the table for a header (M, A) with an argument
TableKind ==
    CASE DecM = 0 -> (CASE DecA = 24 -> "uint8" [] DecA = 25 -> "uint16"
                        [] DecA = 26 -> "uint32" [] DecA = 27 -> "uint64")
      [] DecM = 1 -> (CASE DecA = 24 -> "int8" [] DecA = 25 -> "int16"
                        [] DecA = 26 -> "int32" [] DecA = 27 -> "int64")
      [] DecM = 7 -> (CASE DecA = 25 -> "float16" [] DecA = 26 -> "float32"
                        [] DecA = 27 -> "float64")

\* C6: for a header with M = 0 or 1 and A in 24..27, or M = 7 and A in 25..27
\* (read with its argument), Decode into a typed scalar destination succeeds
\* exactly when the destination has the type the table assigns to (M, A);
\* for any other destination it returns a type mismatch error and the
\* destination keeps its value.
C6_TypedScalar ==
    DecodedItem /\ ((DecM \in {0, 1} /\ DecA \in 24..27) \/ (DecM = 7 /\ DecA \in 25..27)) =>
        /\ ret.st = "ok" <=> ret.t.k = TableKind
        /\ ret.t.k # TableKind => ret.st = "err" /\ ret.e = "mismatch" /\ dst.v = ret.v0

C6_Witness ==
    /\ DecodedItem /\ DecM = 1 /\ DecA = 25 /\ ret.calls = 2
    /\ ret.t.k = "int16" /\ ret.st = "ok" /\ dst.v # ret.v0

\* the integer a signed bit pattern denotes, as the pair (negative, n): the
\* number is -1 - n when negative and n otherwise, n an unsigned pattern
Signed(b) == IF b[1] >= 128 THEN <<TRUE, Strip(Compl(b))>> ELSE <<FALSE, Strip(b)>>

\* C7: a negative-integer item whose w-bit argument is u, decoded into the
\* signed w-bit destination, yields -1 - u; Decode never returns success
\* with another value.
C7_NegativeValue ==
    DecodedItem /\ DecM = 1 /\ DecA \in 24..27 /\ ret.t.k = TableKind /\ ret.st = "ok" =>
        Signed(dst.v) = <<TRUE, Strip(DecArg)>>

----------------------------------------------------------------------------
(* Encoder and decoder together: a scalar value is written by Encode (or an *)
(* integer by composeUint / composeInt), and what Encode wrote is read back *)
(* by a decoder into a variable of the value's type                        *)

\* the bytes integer values are made of: 0, 1, the inline limit and its
\* successor, the sign limit and its successor, all ones
CodecBytes == {0, 1, 23, 24, 127, 128, 255}

\* the length of the long strings: the first that needs an argument byte
LongLen == 24

\* bit patterns of n bytes: k zero bytes, a byte a, then bytes b
Magnitudes(n) ==
    {Zeros(k) \o <<a>> \o [i \in 1..(n - k - 1) |-> b] :
        k \in 0..(n - 1), a \in CodecBytes, b \in {0, 255}}

\* those and their complements (the negative numbers of each magnitude)
Patterns(n) == Magnitudes(n) \cup {Compl(m) : m \in Magnitudes(n)}

CodecStrings == { <<>>, <<65>>, <<65, 0, 255>>, [i \in 1..LongLen |-> 97] }

\* big integers: 0, and of either sign 1, 255, 256, 65536, 767
BigValues ==
    {BigInt(FALSE, <<>>)}
        \cup {BigInt(neg, abs) : neg \in BOOLEAN,
                                 abs \in { <<1>>, <<255>>, <<1, 0>>, <<1, 0, 0>>, <<2, 255>> }}

CodecValues(t) ==
    IF t.k = "bool" THEN {<<0>>, <<1>>}
    ELSE IF t.k = "bigInt" THEN BigValues
    ELSE IF t.k \in {"bytes", "string"} THEN CodecStrings
    ELSE Patterns(Width(t.k))

CodecTypes == {Ty(k) : k \in UintKinds \cup IntKinds \cup {"bool", "bytes", "string", "bigInt"}}

InitCodec ==
    /\ \E t \in CodecTypes : \E v \in CodecValues(t) : dst = [t |-> t, v |-> v]
    /\ w = <<>>
    /\ input = <<>>
    /\ parser = NewParser(<<>>, Huge)
    /\ strict = FALSE
    /\ ret = [op |-> "new"]
    /\ enc = NewEncoder(FALSE, FALSE)
    /\ extensionTagDec = <<>>
    /\ extensionsDec = <<>>

\* enc.Encode(v) for the value v of dst
CEncode ==
    /\ ret.op = "new"
    /\ LET returned(r) ==
               /\ w' = r.w
               /\ ret' = [op |-> "Encode", err |-> r.err, t |-> dst.t, v |-> dst.v]
       IN returned(Encode(w, enc, dst.t, dst.v, <<>>))
    /\ UNCHANGED <<parser, strict, dst, input, enc, extensionTagDec, extensionsDec>>

\* c.composeUint(u, M) for the uint64 u of dst
CComposeUint ==
    /\ ret.op = "new"
    /\ dst.t.k = "uint64"
    /\ \E M \in cborUnsignedInt..cborNC :
          LET returned(r) ==
                  /\ w' = r.w
                  /\ ret' = [op |-> "composeUint", err |-> r.err, n |-> r.n,
                             major |-> M, i |-> dst.v]
          IN returned(composeUint(w, dst.v, M))
    /\ UNCHANGED <<parser, strict, dst, input, enc, extensionTagDec, extensionsDec>>

\* c.composeInt(i) for the int64 i of dst
CComposeInt ==
    /\ ret.op = "new"
    /\ dst.t.k = "int64"
    /\ LET returned(r) ==
               /\ w' = r.w
               /\ ret' = [op |-> "composeInt", err |-> r.err, n |-> r.n, i |-> dst.v]
       IN returned(composeInt(w, dst.v))
    /\ UNCHANGED <<parser, strict, dst, input, enc, extensionTagDec, extensionsDec>>

\* c.composeBigUint(n) or c.composeBigInt(n) for the big.Int n of dst, by
\* its sign
CComposeBig ==
    /\ ret.op = "new"
    /\ dst.t.k = "bigInt"
    /\ LET returned(r) ==
               /\ w' = r.w
               /\ ret' = [op |-> "composeBig", err |-> r.err, i |-> dst.v]
       IN IF dst.v.neg THEN returned(composeBigInt(w, dst.v))
          ELSE returned(composeBigUint(w, dst.v))
    /\ UNCHANGED <<parser, strict, dst, input, enc, extensionTagDec, extensionsDec>>

\* NewDecoder over what Encode wrote, then Decode(&x) for a new variable x of
\* the type of the encoded value
CDecode ==
    /\ ret.op = "Encode"
    /\ ret.err = "nil"
    /\ \E mr \in ReadSizes :
          LET returned(d, before) ==
                  /\ parser' = d.p
                  /\ dst' = [t |-> ret.t, v |-> d.v]
                  /\ ret' = [op |-> "Decode", calls |-> 1, before |-> before,
                             t |-> ret.t, v0 |-> ZeroOf(ret.t), st |-> d.st, e |-> d.e,
                             sent |-> ret.v]
              created(dec) == returned(Decode(dec.parser, dec.strict, ret.t, ZeroOf(ret.t)), dec.parser)
          IN created(NewDecoder(w, mr, FALSE))
    /\ input' = w
    /\ UNCHANGED <<strict, w, enc, extensionTagDec, extensionsDec>>

NextCodec == CEncode \/ CComposeUint \/ CComposeInt \/ CComposeBig \/ CDecode

SpecCodec == InitCodec /\ [][NextCodec]_vars

\* C1: a scalar value written by Encode and read back by Decode into a
\* variable of its own type gives no error and the same value, for every
\* value of every width, small ones included.
C1_RoundTrip ==
    ret.op = "Decode" /\ ret.before.mr = Huge => ret.st = "ok" /\ dst.v = ret.sent

\* the uint64 pattern u is at most the largest number of n bytes
AtMost(u, n) == \A j \in 1..(8 - n) : u[j] = 0

\* the header byte and argument the width rule gives for the uint64 u and
\* the major type m
ByRule(u, m) ==
    IF AtMost(u, 1) /\ u[8] < 24 THEN <<m * 32 + u[8]>>
    ELSE IF AtMost(u, 1) THEN <<m * 32 + 24>> \o SubSeq(u, 8, 8)
    ELSE IF AtMost(u, 2) THEN <<m * 32 + 25>> \o SubSeq(u, 7, 8)
    ELSE IF AtMost(u, 4) THEN <<m * 32 + 26>> \o SubSeq(u, 5, 8)
    ELSE <<m * 32 + 27>> \o u

\* C8: composeUint(u, M) writes the header (M << 5) | A and the big-endian
\* argument in the narrowest of the forms inline, 1, 2, 4, 8 bytes that holds
\* u; composeInt(i) writes that form with M = 0 and argument i for i >= 0 and
\* with M = 1 and argument -1 - i for i < 0.
C8_WidthPolicy ==
    /\ ret.op = "composeUint" => ret.err = "nil" /\ w = ByRule(ret.i, ret.major)
    /\ ret.op = "composeInt" =>
          /\ ret.err = "nil"
          /\ \E m \in {0, 1} : \E u \in Patterns(8) :
                /\ w = ByRule(u, m)
                /\ Signed(ret.i) = <<m = 1, Strip(u)>>

C8_Witness ==
    /\ ret.op = "composeInt"
    /\ ret.i = <<255, 255, 255, 255, 255, 255, 255, 0>>
    /\ w = <<1 * 32 + 24, 255>>

----------------------------------------------------------------------------
(* Maps and arrays decoded into records: NewDecoder, strict or not, over a  *)
(* source holding one map (definite or indefinite) or array of up to        *)
(* MaxEntries key/value pairs, then Decode into a record variable           *)

MaxEntries == 3

\* "Fun", "Amt" and "Fail"
KeyFun == <<70, 117, 110>>

KeyAmt == <<65, 109, 116>>

KeyFail == <<70, 97, 105, 108>>

\* struct { Fun bool; Amt int8 } and struct { Fun bool }
FunAmt == StructTy(<<Field(KeyFun, <<>>, Ty("bool")), Field(KeyAmt, <<>>, Ty("int8"))>>)

FunOnly == StructTy(<<Field(KeyFun, <<>>, Ty("bool"))>>)

RecordTypes == {FunAmt, FunOnly}

\* a key as a text string item
KeyItem(k) == <<cborTextString * 32 + Len(k)>> \o k

\* the value items: true, false, -2, the text "A"
RecValues == { <<absoluteTrue>>, <<absoluteFalse>>, <<33>>, <<97, 65>> }

\* a field's key with any value, the unknown key with -2 or with "A"
Entries ==
    {KeyItem(k) \o v : k \in {KeyFun, KeyAmt}, v \in RecValues}
        \cup {KeyItem(KeyFail) \o v : v \in { <<33>>, <<97, 65>> }}

RECURSIVE Flatten(_)
Flatten(es) == IF es = <<>> THEN <<>> ELSE Head(es) \o Flatten(Tail(es))

\* the item of a sequence of entries in one of the three forms
Container(form, es) ==
    CASE form = "map" -> <<cborDataMap * 32 + Len(es)>> \o Flatten(es)
      [] form = "indefinite" -> <<cborDataMap * 32 + cborIndefinite>> \o Flatten(es) \o <<cborBreak>>
      [] form = "array" -> <<cborDataArray * 32 + 2 * Len(es)>> \o Flatten(es)

Forms == {"map", "indefinite", "array"}

EntrySeqs == UNION {[1..n -> Entries] : n \in 0..MaxEntries}

RecordInputs == {Container(f, es) : f \in Forms, es \in EntrySeqs}

InitRecord ==
    /\ input \in RecordInputs
    /\ \E st \in BOOLEAN :
          /\ parser = NewDecoder(input, Huge, st).parser
          /\ strict = NewDecoder(input, Huge, st).strict
    /\ dst = NoDst
    /\ w = <<>>
    /\ ret = [op |-> "new", calls |-> 0]
    /\ enc = NewEncoder(FALSE, FALSE)
    /\ extensionTagDec = <<>>
    /\ extensionsDec = <<>>

\* d.Decode(&a) for a record variable a
DecodeRecord ==
    /\ ret.calls = 0
    /\ \E t \in RecordTypes : DecodeCall(t, ZeroOf(t))

NextRecord == DecodeRecord

SpecRecord == InitRecord /\ [][NextRecord]_vars

\* C2: when Decode returns without error it has consumed exactly the bytes
\* of the first complete item; the source here holds one item and nothing
\* else, so no unread byte remains, also for a map or array with unknown
\* keys or more entries than the record has fields in non-strict mode.
C2_SingleItem ==
    ret.op = "Decode" /\ ret.st = "ok" => parser.r = <<>>

\* the value items that have the type of field f of FunAmt, with the value
\* each one denotes
GoodValues(f) ==
    IF f = 1 THEN { <<<<absoluteTrue>>, <<1>>>>, <<<<absoluteFalse>>, <<0>>>> }
    ELSE { <<<<33>>, <<254>>>> }

\* C10: a map in which a key that names a field occurs twice: in strict mode
\* Decode fails with the duplicated-key error; in non-strict mode the field
\* keeps the value of the first occurrence whatever the duplicate's value
\* item is, the duplicate's value is consumed and the entries after it are
\* decoded.  (In strict mode the map has the two entries only, as many as the
\* record has fields.)
C10_DuplicateKeys ==
    \A f \in 1..2 : \A g \in GoodValues(f) : \A v2 \in RecValues :
      \A more \in BOOLEAN : \A h \in (IF more THEN GoodValues(3 - f) ELSE {<<>>}) :
        LET k == FunAmt.fields[f].name
            rest == IF more THEN <<KeyItem(FunAmt.fields[3 - f].name) \o h[1]>> ELSE <<>>
            es == <<KeyItem(k) \o g[1], KeyItem(k) \o v2>> \o rest
            exp == [i \in 1..2 |-> IF i = f THEN g[2]
                                   ELSE IF more THEN h[2] ELSE ZeroOf(FunAmt.fields[i].t)]
        IN ret.op = "Decode" /\ ret.t = FunAmt /\ input = Container("map", es) =>
              IF strict THEN ~more => ret.st = "err" /\ ret.e = "StrictDup"
              ELSE ret.st = "ok" /\ dst.v = exp /\ parser.r = <<>>

\* the entries a FunAmt record can take: <<field, <<value item, value>>>>
KnownEntries == UNION {{<<f, g>> : g \in GoodValues(f)} : f \in 1..2}

\* sequences of such entries, no field twice
KnownSeqs ==
    {<<>>} \cup {<<a>> : a \in KnownEntries}
           \cup {q \in {<<a, b>> : a \in KnownEntries, b \in KnownEntries} : q[1][1] # q[2][1]}

\* their wire form and the record they denote
WireOf(ks) == [i \in 1..Len(ks) |-> KeyItem(FunAmt.fields[ks[i][1]].name) \o ks[i][2][1]]

RecordOf(ks) ==
    [f \in 1..2 |-> IF \E i \in 1..Len(ks) : ks[i][1] = f
                    THEN ks[CHOOSE i \in 1..Len(ks) : ks[i][1] = f][2][2]
                    ELSE ZeroOf(FunAmt.fields[f].t)]

\* the value items of the unknown key
UnknownValues == { <<33>>, <<97, 65>> }

\* C11: a map with one key that names no field: in strict mode Decode fails
\* with the unknown-key error (the map having as many entries as the record
\* has fields, when its length is given); in non-strict mode the whole value
\* item of that entry is consumed and discarded, the fields receive what they
\* would receive without the entry, and Decode succeeds.
C11_UnknownKey ==
    \A pre \in KnownSeqs : \A post \in KnownSeqs : \A u \in UnknownValues :
      \A form \in {"map", "indefinite"} :
        LET ks == pre \o post
            es == WireOf(pre) \o <<KeyItem(KeyFail) \o u>> \o WireOf(post)
        IN /\ ks \in KnownSeqs
           /\ ret.op = "Decode" /\ ret.t = FunAmt /\ input = Container(form, es)
           => IF strict
              THEN (form = "map" => Len(es) = 2) => ret.st = "err" /\ ret.e = "StrictUnknown"
              ELSE ret.st = "ok" /\ dst.v = RecordOf(ks) /\ parser.r = <<>>

\* the length of the item at position i of s, for the items of the inputs:
\* a header with an inline argument, followed by its payload when a string
ItemLen(s, i) == IF s[i] \div 32 \in {cborByteString, cborTextString} THEN 1 + (s[i] % 32) ELSE 1

\* the number of items from position i up to the break byte or the end
RECURSIVE CountItems(_, _)
CountItems(s, i) ==
    IF i > Len(s) \/ s[i] = cborBreak THEN 0 ELSE 1 + CountItems(s, i + ItemLen(s, i))

\* the number of key/value pairs of the wire map held by input
WirePairs ==
    IF input[1] % 32 = cborIndefinite THEN CountItems(input, 2) \div 2 ELSE input[1] % 32

\* C12: in strict mode a wire map of p pairs, definite or indefinite, decoded
\* into a record of f fields fails with the length-mismatch error whenever
\* p # f, for p > f and for p < f.
C12_StrictLength ==
    /\ ret.op = "Decode" /\ strict
    /\ input[1] \div 32 = cborDataMap
    /\ WirePairs # Len(ret.t.fields)
    => ret.st = "err" /\ ret.e = "StrictLen"

----------------------------------------------------------------------------
(* Decode of the same sources into a map variable                           *)

\* map[string]bool and map[string]int8
StrBool == MapTy(Ty("string"), Ty("bool"))

StrInt8 == MapTy(Ty("string"), Ty("int8"))

MapTypes == {StrBool, StrInt8}

\* d.Decode(&m) for a nil map variable m
DecodeMap ==
    /\ ret.calls = 0
    /\ \E t \in MapTypes : DecodeCall(t, ZeroOf(t))

NextMap == DecodeMap

SpecMap == InitRecord /\ [][NextMap]_vars

\* the pairs of a key and a boolean, and the sources made of them
BoolPairs == {<<k, g>> : k \in {KeyFun, KeyAmt, KeyFail}, g \in GoodValues(1)}

BoolMaps == UNION {[1..n -> BoolPairs] : n \in 0..MaxEntries}

HasDuplicate(ks) == \E i, j \in 1..Len(ks) : i < j /\ ks[i][1] = ks[j][1]

\* the map in which every key has the value of its last occurrence
LastWins(ks) ==
    [k \in {ks[i][1] : i \in 1..Len(ks)} |->
        ks[CHOOSE i \in 1..Len(ks) :
              ks[i][1] = k /\ \A j \in (i + 1)..Len(ks) : ks[j][1] # k][2][2]]

MapCases ==
    {[in |-> Container(form, [i \in 1..Len(ks) |-> KeyItem(ks[i][1]) \o ks[i][2][1]]),
      dup |-> HasDuplicate(ks), want |-> LastWins(ks)] :
        form \in {"map", "indefinite"}, ks \in BoolMaps}

\* C13: a map of text keys and booleans decoded into a map[string]bool: in
\* strict mode a key that already occurred makes Decode fail with the
\* duplicated-key error; in non-strict mode Decode succeeds and every key
\* has the value of its last occurrence.
C13_MapDuplicates ==
    ret.op = "Decode" /\ ret.t = StrBool =>
        \A c \in MapCases :
            input = c.in =>
                IF strict /\ c.dup THEN ret.st = "err" /\ ret.e = "StrictDup"
                ELSE ret.st = "ok" /\ dst.v = c.want

\* the chunks of an indefinite string of the given major type from r[i] on:
\* whether they are well formed up to a break byte, their payloads
\* concatenated, and what follows the break
RECURSIVE Chunks(_, _, _)
Chunks(r, i, major) ==
    LET more(from, n) ==
            IF from + n - 1 > Len(r) THEN [ok |-> FALSE, v |-> <<>>, rest |-> <<>>]
            ELSE LET c == Chunks(r, from + n, major)
                 IN [ok |-> c.ok, v |-> SubSeq(r, from, from + n - 1) \o c.v, rest |-> c.rest]
    IN IF i > Len(r) THEN [ok |-> FALSE, v |-> <<>>, rest |-> <<>>]
       ELSE IF r[i] = cborBreak THEN [ok |-> TRUE, v |-> <<>>, rest |-> SubSeq(r, i + 1, Len(r))]
       ELSE IF r[i] \div 32 = major /\ r[i] % 32 <= cborSmallInt THEN more(i + 1, r[i] % 32)
       ELSE IF r[i] = major * 32 + cborUint8 /\ i < Len(r) THEN more(i + 2, r[i + 1])
       ELSE [ok |-> FALSE, v |-> <<>>, rest |-> <<>>]

\* C14: an indefinite-length byte string (or text string) made of k >= 0
\* definite-length chunks followed by the break byte decodes, into a []byte
\* (or string) variable, to the concatenation of the chunk payloads in wire
\* order, the empty string when k = 0, and decoding stops exactly after the
\* break byte.
C14_IndefiniteString ==
    \A major \in {cborByteString, cborTextString} :
        /\ ret.op = "Decode"
        /\ ret.t.k = (IF major = cborByteString THEN "bytes" ELSE "string")
        /\ ret.before.r # <<>>
        /\ DecHdr = major * 32 + cborIndefinite
        /\ Chunks(ret.before.r, 2, major).ok
        => /\ ret.st = "ok"
           /\ dst.v = Chunks(ret.before.r, 2, major).v
           /\ parser.r = Chunks(ret.before.r, 2, major).rest

\* C15: a Tag 2 item whose content is the byte string b decodes to the
\* integer bytes_BE(b) and a Tag 3 item to -1 - bytes_BE(b), into a big
\* integer whatever value (zero, positive, negative) it held before the
\* call, and into an empty interface.  (The content has an inline length and
\* the source returns every byte asked for.)
C15_Bignum ==
    /\ ret.op = "Decode"
    /\ ret.t.k \in {"bigInt", "interface"}
    /\ ret.before.mr = Huge
    /\ Len(ret.before.r) >= 2
    /\ DecHdr \in {absolutePositiveBigNum, absoluteNegativeBigNum}
    /\ ret.before.r[2] \div 32 = cborByteString
    /\ ret.before.r[2] % 32 <= cborSmallInt
    /\ Len(ret.before.r) >= 2 + (ret.before.r[2] % 32)
    => LET b == SubSeq(ret.before.r, 3, 2 + (ret.before.r[2] % 32))
           n == IF DecHdr = absolutePositiveBigNum THEN BigInt(FALSE, Strip(b))
                ELSE BigInt(TRUE, Inc(Strip(b)))
       IN /\ ret.st = "ok"
          /\ dst.v = IF ret.t.k = "bigInt" THEN n ELSE [k |-> "bigInt", v |-> n]

\* C16: for a big integer n >= 0 composeBigUint emits 0xC2 and a byte string
\* whose content is the big-endian representation of n; for n < 0
\* composeBigInt emits 0xC3 and a byte string whose content is the
\* big-endian representation of |n| - 1, also when the lowest byte of |n| is
\* 0x00.
C16_ComposeBig ==
    ret.op = "composeBig" =>
        /\ ret.err = "nil"
        /\ Len(w) >= 2
        /\ w[1] = IF ret.i.neg THEN absoluteNegativeBigNum ELSE absolutePositiveBigNum
        /\ w[2] = cborByteString * 32 + (Len(w) - 2)
        /\ LET b == Strip(SubSeq(w, 3, Len(w)))
           IN IF ret.i.neg THEN Inc(b) = ret.i.abs ELSE b = ret.i.abs

----------------------------------------------------------------------------
(* The Encoder on records, floats and maps, with its options                *)

MaxEncodes == 2

\* the numbers of fields of the records: none, few, around the largest
\* count a header byte holds
StructSizes == {0, 1, 2, 22, 23, 24}

\* struct { A, B, .. bool } of k fields
BoolStruct(k) == StructTy([i \in 1..k |-> Field(<<64 + i>>, <<>>, Ty("bool"))])

\* struct { p int8; N uint8 `cbor:"n"`; S bool `cbor:"-"`; B bool }
Tagged ==
    StructTy(<<Field(<<112>>, <<>>, Ty("int8")), Field(<<78>>, <<110>>, Ty("uint8")),
               Field(<<83>>, <<45>>, Ty("bool")), Field(<<66>>, <<>>, Ty("bool"))>>)

\* 1.0, 0.0, +Inf, -Inf, two NaNs, as float32 and as float64
Floats(n) ==
    {<<a, b>> \o Zeros(n - 2) :
        a \in {63, 0, 127, 255}, b \in (IF n = 4 THEN {128, 0, 192} ELSE {240, 0, 248})}

\* the keys "A", "B" and "AA" of the maps
MapKeys == { <<65>>, <<66>>, <<65, 65>> }

\* struct { C chan bool }
ChanStruct == StructTy(<<Field(<<67>>, <<>>, Ty("chan"))>>)

EncTypes ==
    {BoolStruct(k) : k \in StructSizes}
        \cup {Tagged, Ty("float32"), Ty("float64"), StrBool, Ty("chan"), ChanStruct}

EncValues(t) ==
    CASE t = Tagged -> { <<<<255>>, <<34>>, <<1>>, <<0>>>> }
      [] t = ChanStruct -> { <<<<>>>>, <<<<1>>>> }
      [] t.k = "chan" -> { <<>>, <<1>> }
      [] t.k = "struct" -> {[i \in 1..Len(t.fields) |-> BoolVal(i % 2 = m)] : m \in {1, 2}}
      [] t.k = "float32" -> Floats(4)
      [] t.k = "float64" -> Floats(8)
      [] t.k = "map" -> UNION {[ks -> {<<0>>, <<1>>}] : ks \in SUBSET MapKeys}

\* the orders in which the keys of a map may be returned
Orders(t, v) ==
    IF t.k # "map" THEN { <<>> }
    ELSE {o \in [1..Cardinality(DOMAIN v) -> DOMAIN v] : \A k \in DOMAIN v : \E i \in DOMAIN o : o[i] = k}

InitEncoder ==
    /\ \E t \in EncTypes : \E v \in EncValues(t) : dst = [t |-> t, v |-> v]
    /\ \E c, cc \in BOOLEAN : enc = NewEncoder(c, cc)
    /\ extensionTagDec = <<>>
    /\ extensionsDec = <<>>
    /\ w = <<>>
    /\ input = <<>>
    /\ parser = NewParser(<<>>, Huge)
    /\ strict = FALSE
    /\ ret = [op |-> "new", calls |-> 0, outs |-> <<>>]

\* enc.Encode(v) for the value v of dst; outs are the bytes each call wrote
EEncode ==
    /\ ret.calls < MaxEncodes
    /\ \E ord \in Orders(dst.t, dst.v) :
          LET returned(r) ==
                  /\ w' = r.w
                  /\ ret' = [op |-> "Encode", calls |-> ret.calls + 1, err |-> r.err,
                             outs |-> Append(ret.outs, Drop(r.w, Len(w)))]
          IN returned(Encode(w, enc, dst.t, dst.v, ord))
    /\ UNCHANGED <<parser, strict, dst, input, enc, extensionTagDec, extensionsDec>>

NextEncoder == EEncode

SpecEncoder == InitEncoder /\ [][NextEncoder]_vars

\* C17: encoding a record with k emitted fields (exported and not tagged
\* "-"), for every k >= 0 including k >= 23, writes a well-formed map header
\* of major type 5 whose argument is k (inline for k < 24, else the header
\* and the argument byte), then exactly k key/value pairs in field order,
\* each key the field's name or alias as a text string.
C17_StructHeader ==
    ret.op = "Encode" /\ dst.t.k = "struct" =>
        LET fs == dst.t.fields
            emitted == SelectSeq([i \in 1..Len(fs) |-> i],
                                 LAMBDA i : fs[i].name[1] \in 65..90 /\ fs[i].tag # <<45>>)
            k == Len(emitted)
            header == IF k < 24 THEN <<cborDataMap * 32 + k>>
                      ELSE <<cborDataMap * 32 + cborUint8, k>>
            pair(i) == KeyItem(IF fs[i].tag # <<>> THEN fs[i].tag ELSE fs[i].name)
                          \o encode(<<>>, enc, fs[i].t, dst.v[i], <<>>).w
        IN /\ ret.err = "nil"
           /\ ret.outs[Len(ret.outs)] = header \o Flatten([j \in 1..k |-> pair(emitted[j])])

\* C18: in canonical mode (the option set on the encoder and on its
\* composer), encoding a float32 or float64 emits exactly f9 7e 00 for a
\* NaN, f9 7c 00 for +Infinity and f9 fc 00 for -Infinity; the sign of an
\* infinity is never lost.
C18_CanonicalFloat ==
    /\ ret.op = "Encode"
    /\ dst.t.k \in {"float32", "float64"}
    /\ enc.canonical /\ enc.composer.canonical
    => /\ IsNaN(dst.v) => ret.outs[Len(ret.outs)] = <<249, 126, 0>>
       /\ IsInf(dst.v) /\ dst.v[1] < 128 => ret.outs[Len(ret.outs)] = <<249, 124, 0>>
       /\ IsInf(dst.v) /\ dst.v[1] >= 128 => ret.outs[Len(ret.outs)] = <<249, 252, 0>>

\* C19: with the canonical option set, encoding a map emits its pairs in
\* ascending order of the keys' encoded bytes, so that encoding the same map
\* twice gives the same bytes.
C19_CanonicalMap ==
    /\ ret.op = "Encode"
    /\ dst.t.k = "map"
    /\ enc.canonical /\ enc.composer.canonical
    => LET Less(a, b) ==
               \E n \in 1..Len(b) :
                   /\ \A i \in 1..(n - 1) : i <= Len(a) /\ a[i] = b[i]
                   /\ (n > Len(a) \/ a[n] < b[n])
           sorted == CHOOSE o \in Orders(dst.t, dst.v) :
                         \A i, j \in DOMAIN o : i < j => Less(KeyItem(o[i]), KeyItem(o[j]))
       IN /\ \A n \in DOMAIN ret.outs :
                 ret.outs[n] = Encode(<<>>, enc, dst.t, dst.v, sorted).w
          /\ ret.calls = 2 => ret.outs[1] = ret.outs[2]

----------------------------------------------------------------------------
(* The two registers of extension handlers                                  *)

MaxKeys == 2

\* tag numbers, host types, handler functions
TagInfos == {1000 + i : i \in 1..MaxKeys}

HostTypes == {<<84, 48 + i>> : i \in 1..MaxKeys}

Handlers == {"f", "g"}

\* register without the test for a bound key
register_rebind(m, k, fn) ==
    [m |-> [x \in DOMAIN m \cup {k} |-> IF x = k THEN fn ELSE m[x]], err |-> "nil"]

\* register of either map: an error for a bound key, else the key is bound
register(m, k, fn) ==
    IF k \in DOMAIN m THEN [m |-> m, err |-> "registered"]
    ELSE [m |-> [x \in DOMAIN m \cup {k} |-> IF x = k THEN fn ELSE m[x]], err |-> "nil"]

\* lookup of either map
lookup(m, k) ==
    IF k \notin DOMAIN m THEN [fn |-> "nil", err |-> "notRegistered"]
    ELSE [fn |-> m[k], err |-> "nil"]

InitRegistry ==
    /\ extensionTagDec = <<>>
    /\ extensionsDec = <<>>
    /\ enc = NewEncoder(FALSE, FALSE)
    /\ parser = NewParser(<<>>, Huge)
    /\ strict = FALSE
    /\ dst = NoDst
    /\ w = <<>>
    /\ input = <<>>
    /\ ret = [op |-> "new"]

RegisterTagExtensionFn ==
    /\ \E k \in TagInfos, fn \in Handlers :
          LET returned(r) ==
                  /\ extensionTagDec' = r.m
                  /\ ret' = [op |-> "register", map |-> "tag", k |-> k, fn |-> fn,
                             err |-> r.err, tags |-> extensionTagDec, types |-> extensionsDec]
          IN returned(register(extensionTagDec, k, fn))
    /\ UNCHANGED <<parser, strict, dst, w, input, enc, extensionsDec>>

\* extensionTagDec.lookup(tagInfo), as blind calls it
TagLookup ==
    /\ \E k \in TagInfos :
          LET returned(r) ==
                  ret' = [op |-> "lookup", map |-> "tag", k |-> k, fn |-> r.fn,
                          err |-> r.err, tags |-> extensionTagDec, types |-> extensionsDec]
          IN returned(lookup(extensionTagDec, k))
    /\ UNCHANGED <<parser, strict, dst, w, input, enc, extensionTagDec, extensionsDec>>

RegisterExtensionFn ==
    /\ \E k \in HostTypes, fn \in Handlers :
          LET returned(r) ==
                  /\ extensionsDec' = r.m
                  /\ ret' = [op |-> "register", map |-> "type", k |-> k, fn |-> fn,
                             err |-> r.err, tags |-> extensionTagDec, types |-> extensionsDec]
          IN returned(register(extensionsDec, k, fn))
    /\ UNCHANGED <<parser, strict, dst, w, input, enc, extensionTagDec>>

LookupExtensionFn ==
    /\ \E k \in HostTypes :
          LET returned(r) ==
                  ret' = [op |-> "lookup", map |-> "type", k |-> k, fn |-> r.fn,
                          err |-> r.err, tags |-> extensionTagDec, types |-> extensionsDec]
          IN returned(lookup(extensionsDec, k))
    /\ UNCHANGED <<parser, strict, dst, w, input, enc, extensionTagDec, extensionsDec>>

NextRegistry ==
    RegisterTagExtensionFn \/ TagLookup \/ RegisterExtensionFn \/ LookupExtensionFn

SpecRegistry == InitRegistry /\ [][NextRegistry]_vars

\* C20: for each of the two registers, after any sequence of register and
\* lookup calls: register(k, f) succeeds exactly when k is not yet bound and
\* then binds k to f; on a bound k it returns the duplicate-registration
\* error and leaves the register as it was; lookup(k) returns the handler
\* bound to k, or the not-registered error when k is unbound; a lookup
\* changes nothing, and no binding is ever removed or replaced.
C20_Registries ==
    ret.op \in {"register", "lookup"} =>
        LET before == IF ret.map = "tag" THEN ret.tags ELSE ret.types
            after == IF ret.map = "tag" THEN extensionTagDec ELSE extensionsDec
            other == IF ret.map = "tag" THEN extensionsDec = ret.types
                     ELSE extensionTagDec = ret.tags
        IN /\ other
           /\ \A x \in DOMAIN before : x \in DOMAIN after /\ after[x] = before[x]
           /\ ret.op = "register" /\ ret.k \notin DOMAIN before =>
                 /\ ret.err = "nil"
                 /\ DOMAIN after = DOMAIN before \cup {ret.k}
                 /\ after[ret.k] = ret.fn
           /\ ret.op = "register" /\ ret.k \in DOMAIN before =>
                 ret.err = "registered" /\ DOMAIN after = DOMAIN before
           /\ ret.op = "lookup" => DOMAIN after = DOMAIN before
           /\ ret.op = "lookup" /\ ret.k \in DOMAIN before =>
                 ret.err = "nil" /\ ret.fn = before[ret.k]
           /\ ret.op = "lookup" /\ ret.k \notin DOMAIN before => ret.err = "notRegistered"

\* a register call on a key bound to the other handler was refused, in a
\* register that holds every key
C20_Witness ==
    /\ ret.op = "register"
    /\ ret.err = "registered"
    /\ ret.map = "type"
    /\ extensionsDec[ret.k] # ret.fn
    /\ DOMAIN extensionsDec = HostTypes
    /\ DOMAIN extensionTagDec = TagInfos

----------------------------------------------------------------------------
(* Decode of arrays, after another item or not *)

\* the elements: unsigned and negative integers of every width, floats
\* (with a first argument byte of 0 or 200), true, the break byte
Elems ==
    {ScalarItem(m, a, b) : m \in {cborUnsignedInt, cborNegativeInt}, a \in {5, 24, 25, 26, 27},
                           b \in {0, 200}}
        \cup {ScalarItem(cborNC, a, b) : a \in {25, 26, 27}, b \in {0, 200}}
        \cup { <<absoluteTrue>>, <<cborBreak>> }

\* the elements that come first in an array of two
FirstElems == { <<5>>, <<56, 200>>, <<cborBreak>> }

\* the arrays of one or two elements, definite and indefinite, and records
\* of one entry in their three forms
ArrayItems ==
    {<<cborDataArray * 32 + 1>> \o e : e \in Elems}
        \cup {<<cborDataArray * 32 + cborIndefinite>> \o e \o <<cborBreak>> : e \in Elems}
        \cup {<<cborDataArray * 32 + 2>> \o f \o e : f \in FirstElems, e \in Elems}
        \cup {Container(f, <<KeyItem(KeyFun) \o <<absoluteTrue>>>>) : f \in Forms}

\* what the source holds before the array: nothing, an empty indefinite byte
\* string, a one-byte unsigned integer
Earlier == { <<>>, <<95, 255>>, <<24, 111>> }

ArrayTypes ==
    {Ty("interface"), SliceTy(Ty("interface")), SliceTy(Ty("int8")), SliceTy(Ty("uint16")), FunOnly}

InitArray ==
    /\ input \in {x \o y : x \in Earlier, y \in ArrayItems}
    /\ parser = NewDecoder(input, Huge, FALSE).parser
    /\ strict = NewDecoder(input, Huge, FALSE).strict
    /\ dst = NoDst
    /\ w = <<>>
    /\ ret = [op |-> "new", calls |-> 0]
    /\ enc = NewEncoder(FALSE, FALSE)
    /\ extensionTagDec = <<>>
    /\ extensionsDec = <<>>

\* d.Decode(&x) of the earlier item, into a []byte or a uint8 variable
DecodeEarlier ==
    /\ ret.calls = 0
    /\ parser.r[1] \in {95, 24}
    /\ DecodeCall(Ty(IF parser.r[1] = 95 THEN "bytes" ELSE "uint8"),
                  ZeroOf(Ty(IF parser.r[1] = 95 THEN "bytes" ELSE "uint8")))

\* d.Decode(&a) of the array, for a a nil interface{}, a nil slice or a record
DecodeArray ==
    /\ ret.calls < MaxDecodes
    /\ parser.r # <<>>
    /\ parser.r[1] \div 32 \in {cborDataArray, cborDataMap}
    /\ \E t \in ArrayTypes : DecodeCall(t, ZeroOf(t))

NextArray == DecodeEarlier \/ DecodeArray

SpecArray == InitArray /\ [][NextArray]_vars

\* C21: an array of one integer or float element decoded into an empty
\* interface or a slice of empty interfaces: the element's host value has the
\* kind its header names (unsigned or signed integer of 8, 16, 32, 64 bits
\* for major type 0 or 1, a half, single or double precision float for major
\* type 7), and a float holds the payload bits.
C21_BlindKinds ==
    LET item == Tail(ret.before.r)
        m == item[1] \div 32
        a == item[1] % 32
        bits == IF a < 24 THEN 8 ELSE 8 * 2 ^ (a - 24)
        payload == SubSeq(item, 2, 1 + bits \div 8)
        elems == IF ret.t.k = "interface" THEN dst.v.v ELSE dst.v
        kind == CASE m = cborUnsignedInt -> (CASE bits = 8 -> "uint8" [] bits = 16 -> "uint16"
                                               [] bits = 32 -> "uint32" [] OTHER -> "uint64")
                  [] m = cborNegativeInt -> (CASE bits = 8 -> "int8" [] bits = 16 -> "int16"
                                               [] bits = 32 -> "int32" [] OTHER -> "int64")
                  [] OTHER -> (CASE bits = 16 -> "float16" [] bits = 32 -> "float32"
                                 [] OTHER -> "float64")
    IN /\ ret.op = "Decode"
       /\ ret.t \in {Ty("interface"), SliceTy(Ty("interface"))}
       /\ ret.before.r[1] = cborDataArray * 32 + 1
       /\ Tail(ret.before.r) \in Elems
       /\ Tail(ret.before.r)[1] \notin {absoluteTrue, cborBreak}
       => /\ ret.st = "ok"
          /\ Len(elems) = 1
          /\ elems[1].k = kind
          /\ m = cborNC /\ bits > 16 => elems[1].v = payload

\* C22: Encode of a channel, or of a record with a channel field, returns
\* an error, and an Encode that returns no error has written at least one
\* byte.
C22_Unsupported ==
    ret.op = "Encode" =>
        /\ dst.t \in {Ty("chan"), ChanStruct} => ret.err # "nil"
        /\ ret.err = "nil" => ret.outs[Len(ret.outs)] # <<>>

\* C23: an array of one integer element with an inline or one-byte argument
\* u, decoded into a slice of int8: the element is u for major type 0 and
\* -1 - u for major type 1 when that number is an int8, and Decode returns
\* an error when it is not.
C23_NestedIntegers ==
    LET item == Tail(ret.before.r)
        m == item[1] \div 32
        u == IF item[1] % 32 < 24 THEN item[1] % 32 ELSE item[2]
        x == IF m = cborUnsignedInt THEN u ELSE -1 - u
    IN /\ ret.op = "Decode"
       /\ ret.t = SliceTy(Ty("int8"))
       /\ ret.before.r[1] = cborDataArray * 32 + 1
       /\ Tail(ret.before.r) \in Elems
       /\ Tail(ret.before.r)[1] \div 32 \in {cborUnsignedInt, cborNegativeInt}
       /\ Tail(ret.before.r)[1] % 32 <= 24
       => IF x \in -128..127 THEN ret.st = "ok" /\ dst.v = <<<<(x + 256) % 256>>>>
          ELSE ret.st = "err"

\* C24: an array or a record item Y (well-formed: no break byte but the one
\* that ends an indefinite item) decoded after an earlier item X was decoded
\* gives the result, the value and the unread bytes that decoding Y with a
\* new decoder gives.
C24_History ==
    LET y == ret.before.r
        same(fresh) ==
            /\ ret.st = fresh.st
            /\ ret.e = fresh.e
            /\ dst.v = fresh.v
            /\ parser.r = fresh.p.r
    IN /\ ret.op = "Decode"
       /\ ret.calls = 2
       /\ input = SubSeq(input, 1, 2) \o ret.before.r
       /\ ret.before.r \in ArrayItems
       /\ \A i \in 1..Len(ret.before.r) :
             ret.before.r[i] = cborBreak =>
                 i = Len(ret.before.r) /\ ret.before.r[1] % 32 = cborIndefinite
       => same(Decode(NewDecoder(y, Huge, strict).parser, strict, ret.t, ret.v0))

\* indefinite strings with a chunk of the other string type, an integer chunk,
\* an indefinite chunk
BadChunks == { <<95, 97, 65, 255>>, <<127, 65, 1, 255>>, <<95, 1, 255>>, <<95, 95, 255, 255>> }

\* C25: Decode of an indefinite-length byte or text string whose first chunk
\* is not a definite-length string of the same major type (and not the break
\* byte), into a []byte or a string variable, does not return success.
C25_ChunkTypes ==
    /\ ret.op = "Decode"
    /\ ret.t.k \in {"bytes", "string"}
    /\ ret.before.r \in BadChunks
    /\ ret.calls = 1
    => ret.st # "ok"

\* C26: Decode of a definite-length array of one or two elements one of
\* which is the break byte returns an error, whatever the destination (an
\* empty interface, a slice, a record).
C26_BreakInDefinite ==
    /\ ret.op = "Decode"
    /\ ret.calls = 1
    /\ \/ ret.before.r = <<cborDataArray * 32 + 1, cborBreak>>
       \/ \E f \in FirstElems, e \in Elems :
             /\ ret.before.r = <<cborDataArray * 32 + 2>> \o f \o e
             /\ cborBreak \in {f[1], e[1]}
    => ret.st = "err"

----------------------------------------------------------------------------
(* Decode of decimal fractions and big floats *)

\* exponents: 0, 2, 3, -1, -2, -3, the text "A", true
Exponents == { <<0>>, <<2>>, <<3>>, <<32>>, <<33>>, <<34>>, <<97, 65>>, <<absoluteTrue>> }

\* mantissas: 3, -3, the bignums 5 and -5, the text "A", a byte string of two
\* bytes
Mantissas ==
    { <<3>>, <<34>>, <<absolutePositiveBigNum, 65, 5>>, <<absoluteNegativeBigNum, 65, 4>>,
      <<97, 65>>, <<66, 1, 2>> }

\* the contents of the tag: arrays of no, one, two and three elements, an
\* indefinite array, an integer
Contents ==
    { <<cborDataArray * 32>>, <<5>> }
        \cup {<<cborDataArray * 32 + 1>> \o e : e \in Exponents}
        \cup {<<cborDataArray * 32 + 2>> \o e \o m : e \in Exponents, m \in Mantissas}
        \cup {<<cborDataArray * 32 + 3>> \o e \o m \o <<1>> : e \in Exponents, m \in Mantissas}
        \cup {<<cborDataArray * 32 + cborIndefinite>> \o e \o m \o <<cborBreak>> :
                 e \in Exponents, m \in Mantissas}

FractionTypes == {Ty("float32"), Ty("bigRat"), Ty("interface")}

InitFraction ==
    /\ input \in {<<tag>> \o c : tag \in {absoluteDecimalFraction, absoluteBigFloat}, c \in Contents}
    /\ parser = NewDecoder(input, Huge, FALSE).parser
    /\ strict = NewDecoder(input, Huge, FALSE).strict
    /\ dst = NoDst
    /\ w = <<>>
    /\ ret = [op |-> "new", calls |-> 0]
    /\ enc = NewEncoder(FALSE, FALSE)
    /\ extensionTagDec = <<>>
    /\ extensionsDec = <<>>

\* d.Decode(&a) for a a float32, a big.Rat or a nil interface{}
DecodeFraction ==
    /\ ret.calls = 0
    /\ \E t \in FractionTypes : DecodeCall(t, <<>>)

NextFraction == DecodeFraction

SpecFraction == InitFraction /\ [][NextFraction]_vars

\* C27: Decode of a Tag 4 or Tag 5 item into an empty interface returns an
\* error when the content is not a definite array of two elements, when the
\* exponent is not an integer of major type 0 or 1, and when the mantissa is
\* neither such an integer nor a Tag 2 or Tag 3 bignum; when it returns
\* success no byte of the item is left unread.
C27_TagContent ==
    LET c == Tail(input)
        wellFormed ==
            \E e \in Exponents, m \in Mantissas :
                /\ c = <<cborDataArray * 32 + 2>> \o e \o m
                /\ e[1] \div 32 \in {cborUnsignedInt, cborNegativeInt}
                /\ \/ m[1] \div 32 \in {cborUnsignedInt, cborNegativeInt}
                   \/ m[1] \in {absolutePositiveBigNum, absoluteNegativeBigNum}
    IN ret.op = "Decode" /\ ret.t.k = "interface" =>
          /\ ~wellFormed => ret.st = "err"
          /\ ret.st = "ok" => parser.r = <<>>

\* C28: a Tag 4 item [exp, mant] decodes into a float32 to mant * 10^exp and
\* a Tag 5 item [exp, mant] into a big.Rat to mant * 2^exp, for exp the
\* integer of the exponent item (u for major type 0, -1 - u for major type
\* 1) and mant the integer of the mantissa item or of its bignum (a bignum
\* mantissa is taken for Tag 5).
C28_FractionValue ==
    LET int(b) == IF b[1] >= 128 THEN -1 - BE(Compl(b)) ELSE BE(b)
        wire(i) == IF i[1] \div 32 = cborUnsignedInt THEN i[1] % 32 ELSE -1 - (i[1] % 32)
        big(m) == IF m[1] = absolutePositiveBigNum THEN m[3] ELSE -1 - m[3]
        abs(x) == IF x < 0 THEN -x ELSE x
        \* a * base^p = b * base^q
        scaled(a, p, b, q, base) ==
            a * base ^ (p - Min(p, q)) = b * base ^ (q - Min(p, q))
        \* n / (2 * |e|) = b * 2^q
        frac(n, e, b, q) ==
            IF q >= 0 THEN n = b * 2 ^ q * 2 * abs(e) ELSE n * 2 ^ (-q) = b * 2 * abs(e)
    IN \A e \in Exponents, m \in Mantissas :
          /\ ret.op = "Decode"
          /\ Drop(input, 1) = <<cborDataArray * 32 + 2>> \o e \o m
          /\ e[1] \div 32 \in {cborUnsignedInt, cborNegativeInt}
          /\ \/ /\ input[1] = absoluteDecimalFraction
                /\ ret.t.k = "float32"
                /\ m[1] \div 32 \in {cborUnsignedInt, cborNegativeInt}
             \/ /\ input[1] = absoluteBigFloat
                /\ ret.t.k = "bigRat"
                /\ m[1] \div 32 \in {cborUnsignedInt, cborNegativeInt, cborTag}
          => /\ ret.st = "ok"
             /\ IF ret.t.k = "float32"
                THEN scaled(int(dst.v[1]), int(dst.v[2]), wire(m), wire(e), 10)
                ELSE IF dst.v.big
                     THEN frac(IF dst.v.m.neg THEN -BE(dst.v.m.abs) ELSE BE(dst.v.m.abs),
                               int(dst.v.e), big(m), wire(e))
                ELSE scaled(int(dst.v.m), int(dst.v.e), wire(m), wire(e), 2)

----------------------------------------------------------------------------
(* Decode into a record whose fields have aliases *)

\* struct { Fun bool `cbor:"fun"`; Amt int8 `cbor:"amount"` }
Aliased ==
    StructTy(<<Field(KeyFun, <<102, 117, 110>>, Ty("bool")),
               Field(KeyAmt, <<97, 109, 111, 117, 110, 116>>, Ty("int8"))>>)

\* the keys "Fun", "fun", "amount", "un", "a", "" and "x"
AliasKeys ==
    { KeyFun, <<102, 117, 110>>, <<97, 109, 111, 117, 110, 116>>, <<117, 110>>, <<97>>, <<>>,
      <<120>> }

AliasEntries == {KeyItem(k) \o v : k \in AliasKeys, v \in { <<absoluteTrue>>, <<33>> }}

InitAlias ==
    /\ input \in {Container(f, es) : f \in Forms,
                                     es \in [{1} -> AliasEntries] \cup [{1, 2} -> AliasEntries]}
    /\ \E st \in BOOLEAN :
          /\ parser = NewDecoder(input, Huge, st).parser
          /\ strict = NewDecoder(input, Huge, st).strict
    /\ dst = NoDst
    /\ w = <<>>
    /\ ret = [op |-> "new", calls |-> 0]
    /\ enc = NewEncoder(FALSE, FALSE)
    /\ extensionTagDec = <<>>
    /\ extensionsDec = <<>>

\* d.Decode(&a) for a record variable a with aliases
DecodeAlias ==
    /\ ret.calls = 0
    /\ DecodeCall(Aliased, ZeroOf(Aliased))

NextAlias == DecodeAlias

SpecAlias == InitAlias /\ [][NextAlias]_vars

\* C29: a map or array of one entry decoded into a record: when the key is
\* neither the name nor the whole alias of a field (a substring of an alias,
\* the empty key, another key), no field is assigned.
C29_ExactAlias ==
    \A f \in Forms, k \in AliasKeys, v \in { <<absoluteTrue>>, <<33>> } :
        /\ ret.op = "Decode"
        /\ input = Container(f, <<KeyItem(k) \o v>>)
        /\ \A i \in 1..Len(Aliased.fields) :
              k # Aliased.fields[i].name /\ k # Aliased.fields[i].tag
        => dst.v = ZeroOf(Aliased)

----------------------------------------------------------------------------
(* Decode one iteration at a time: the loops over the chunks of an          *)
(* indefinite string, the elements of an array, the pairs of a map and the  *)
(* entries of a record.  While a loop runs ret holds its variables (pc names *)
(* the loop) and dst the value read so far.                                  *)

\* the chunks, arrays, maps and records the loops run over
LoopItems ==
    { <<95, 65, 1, 66, 2, 3, 255>>, <<130, absoluteTrue, absoluteFalse>>,
      <<159, absoluteTrue, absoluteFalse, cborBreak>> }
        \cup BadChunks
        \cup {Container(f, <<KeyItem(KeyFun) \o <<absoluteTrue>>, KeyItem(KeyFail) \o <<absoluteFalse>>>>) :
                 f \in Forms}

LoopTypes == {Ty("bytes"), SliceTy(Ty("bool")), StrBool, FunOnly}

InitLoop ==
    /\ input \in UNION {Prefixes(i) : i \in LoopItems}
    /\ \E st \in BOOLEAN :
          /\ parser = NewDecoder(input, Huge, st).parser
          /\ strict = NewDecoder(input, Huge, st).strict
    /\ dst = NoDst
    /\ w = <<>>
    /\ ret = [op |-> "new", calls |-> 0]
    /\ enc = NewEncoder(FALSE, FALSE)
    /\ extensionTagDec = <<>>
    /\ extensionsDec = <<>>

\* the call is over: a panic of a handler is recovered by decode, a panic of
\* decodeBytes by the deferred function of Decode
Return(q, st, e, v, t, v0, before) ==
    LET out(rst, re, rv) ==
            /\ dst' = [t |-> t, v |-> rv]
            /\ ret' = [op |-> "Decode", calls |-> 1, before |-> before, t |-> t, v0 |-> v0,
                       st |-> rst, e |-> re]
    IN /\ parser' = q
       /\ CASE st \in {"ok", "err", "panic"} -> out(st, e, v)
            [] t.k # "bytes" -> out("err", "recovered", v)
            [] st = "panicE" -> out("err", "recovered", v0)
            [] OTHER -> out("panic", "nil", v0)
       /\ UNCHANGED <<strict, w, input, enc, extensionTagDec, extensionsDec>>

\* the loop pc is entered, or goes on, with these variables
More(pc, q, t, v, i, length, shown, array, before) ==
    /\ parser' = q
    /\ dst' = [t |-> t, v |-> v]
    /\ ret' = [op |-> "loop", calls |-> 0, before |-> before, t |-> t, v0 |-> ZeroOf(t),
               pc |-> pc, i |-> i, length |-> length, shown |-> shown, array |-> array]
    /\ UNCHANGED <<strict, w, input, enc, extensionTagDec, extensionsDec>>

\* d.Decode(&x) for a zero x of type t begins: the header is read and
\* checked, and a loop is entered; the call returns at once when nothing is
\* looped over
LoopEnter ==
    /\ ret.op = "new"
    /\ \E t \in LoopTypes, pi \in {parseInformation(parser)} :
          LET v0 == ZeroOf(t)
              p == pi.p
              stream == p.header % 32 = cborIndefinite
              array == p.header \div 32 # cborDataMap
              end(q, st, e, v) == Return(q, st, e, v, t, v0, parser)
              loop(pc, q, v, i, length) == More(pc, q, t, v, i, length, {}, array, parser)
          IN IF pi.err # "nil" THEN end(p, "err", pi.err, v0)
             ELSE \E ct \in {checkTypes(t, pi.major, pi.info)} :
               IF ct = "panicE" THEN end(p, "err", "recovered", v0)
               ELSE IF ct # "nil" THEN end(p, "err", ct, v0)
               ELSE IF t.k = "bytes"
                    THEN IF stream THEN loop("chunks", p, <<>>, 0, 0)
                         ELSE \E rd \in {decodeBytes(p)} :
                                 end(rd.p, rd.st, "nil", IF rd.st = "ok" THEN rd.v ELSE v0)
               ELSE IF isNil(p) \/ isUndef(p) THEN end(p, "ok", "nil", v0)
               ELSE IF t.k = "slice"
                    THEN IF stream THEN loop("stream", p, <<>>, 1, 0)
                         ELSE \E bl \in {buflen(p)} :
                                 IF bl.st # "ok" THEN end(bl.p, bl.st, "nil", v0)
                                 ELSE IF ToInt(bl.v) < 0 THEN end(bl.p, "panicS", "nil", v0)
                                 ELSE loop("elems", bl.p,
                                           [x \in 1..ToInt(bl.v) |-> ZeroOf(t.elem)],
                                           1, ToInt(bl.v))
               ELSE IF t.k = "map"
                    THEN IF stream THEN loop("pairStream", p, v0, 0, 0)
                         ELSE \E bl \in {buflen(p)} :
                                 IF bl.st # "ok" THEN end(bl.p, bl.st, "nil", v0)
                                 ELSE loop("pairs", bl.p, v0, 0, ToInt(bl.v))
               ELSE \E c \in {checkStructLength(p, strict, Len(t.fields), array)} :
                       IF c.st # "ok" THEN end(c.p, c.st, c.e, v0)
                       ELSE loop("entries", c.p, v0, 0, c.length)

\* one iteration of decodeIndefiniteBytes
ChunkStep ==
    /\ ret.op = "loop" /\ ret.pc = "chunks"
    /\ LET end(q, st, v) == Return(q, st, "nil", v, ret.t, ret.v0, ret.before)
       IN IF isBreak(parser) THEN end(parser, "ok", dst.v)
          ELSE \E bl \in {buflen(parser)} :
                  IF bl.st # "ok" THEN end(bl.p, bl.st, <<>>)
                  ELSE \E sc \in {scan(bl.p, ToInt(bl.v))} :
                          IF sc.err # "nil" THEN end(sc.p, "panicS", <<>>)
                          ELSE IF sc.n < ToInt(bl.v) THEN end(sc.p, "panicE", <<>>)
                          ELSE \E pi \in {parseInformation(sc.p)} :
                                  IF pi.err # "nil" THEN end(pi.p, "panicE", <<>>)
                                  ELSE More("chunks", pi.p, ret.t, dst.v \o sc.data, 0, 0, {},
                                            ret.array, ret.before)

\* one iteration of decodekSlice: of the loop over length elements, of the
\* loop up to the break
ElemStep ==
    /\ ret.op = "loop" /\ ret.pc \in {"elems", "stream"}
    /\ LET stream == ret.pc = "stream"
           v == dst.v
           i == ret.i
           end(q, st, e, u) == Return(q, st, e, u, ret.t, ret.v0, ret.before)
           elem(d, u) ==
               IF d.st # "ok" THEN end(d.p, d.st, d.e, u)
               ELSE More(ret.pc, d.p, ret.t, u, i + 1, ret.length, {}, ret.array, ret.before)
       IN IF ~stream /\ i > ret.length THEN end(parser, "ok", "nil", v)
          ELSE \E pi \in {parseInformation(parser)} :
                  IF pi.err # "nil" THEN end(pi.p, "err", pi.err, v)
                  ELSE IF stream /\ isBreak(pi.p) THEN end(pi.p, "ok", "nil", v)
                  ELSE IF stream
                       THEN \E d \in {decode(pi.p, strict, ret.t.elem, ZeroOf(ret.t.elem))} :
                               elem(d, Append(v, d.v))
                  ELSE IF i > Len(v) THEN end(pi.p, "panicS", "nil", v)
                  ELSE \E d \in {decode(pi.p, strict, ret.t.elem, v[i])} :
                          elem(d, [v EXCEPT ![i] = d.v])

\* one iteration of decodekMap, of the loop over length pairs or of the loop
\* up to the break: generateKeyValue reads one key and one value
PairStep ==
    /\ ret.op = "loop" /\ ret.pc \in {"pairs", "pairStream"}
    /\ LET stream == ret.pc = "pairStream"
           m == dst.v
           kt == ret.t.key
           vt == ret.t.elem
           end(q, st, e, mm) == Return(q, st, e, mm, ret.t, ret.v0, ret.before)
           fail(q, e) ==
               IF stream /\ e = "EOF" /\ isBreak(q) THEN end(q, "ok", "nil", m)
               ELSE end(q, "err", e, m)
           put(q, mm) ==
               More(ret.pc, q, ret.t, mm, 0, ret.length - 1, {}, ret.array, ret.before)
       IN IF ~stream /\ ret.length <= 0 THEN end(parser, "ok", "nil", m)
          ELSE \E pk \in {parseInformation(parser)} :
            IF pk.err # "nil" THEN fail(pk.p, pk.err)
            ELSE IF isBreak(pk.p) THEN fail(pk.p, "EOF")
            ELSE \E dk \in {decode(pk.p, strict, kt, ZeroOf(kt))} :
              IF strict /\ dk.v \in DOMAIN m THEN fail(dk.p, "StrictDup")
              ELSE \E pv \in {parseInformation(dk.p)} :
                IF pv.err # "nil" THEN fail(pv.p, pv.err)
                ELSE \E dv \in {decode(pv.p, strict, vt, ZeroOf(vt))} :
                  IF dk.v \in DOMAIN m
                  THEN put(IF vt.k = "struct" /\ ~(isNil(pv.p) \/ isUndef(pv.p))
                           THEN pv.p ELSE dv.p,
                           SetMapIndex(m, dk.v, m[dk.v]))
                  ELSE put(dv.p, SetMapIndex(m, dk.v, dv.v))

\* one iteration of decodeInner: the length is checked, then the key and the
\* value of one entry are read (decodeStructFieldKey, decodeStructFieldValue)
EntryStep ==
    /\ ret.op = "loop" /\ ret.pc = "entries"
    /\ LET v == dst.v
           t == ret.t
           end(q, st, e, u) == Return(q, st, e, u, t, ret.v0, ret.before)
           again(q, u, shown) ==
               More("entries", q, t, u, ret.i + 1, ret.length - 1, shown, ret.array, ret.before)
           recorded(key) == IF strict THEN ret.shown \cup {key} ELSE ret.shown
           value(q, key, f) ==
               \E pv \in {parseInformation(q)} :
                  IF f = 0
                  THEN IF strict THEN end(q, "err", "StrictUnknown", v)
                       ELSE IF pv.err # "nil" THEN end(pv.p, "err", pv.err, v)
                       ELSE again(pv.p, v, recorded(key))
                  ELSE IF pv.err # "nil" THEN end(pv.p, "err", pv.err, v)
                  ELSE \E d \in {decode(pv.p, strict, t.fields[f].t, v[f])} :
                          IF d.st # "ok" THEN end(d.p, d.st, d.e, [v EXCEPT ![f] = d.v])
                          ELSE again(d.p, [v EXCEPT ![f] = d.v], recorded(key))
       IN IF ret.length = 0 /\ ~parser.indefinite THEN end(parser, "ok", "nil", v)
          ELSE \E c \in {checkRtStructLength(parser, strict, ret.i, Len(t.fields))} :
            IF c.err # "nil" THEN end(c.p, "err", c.err, v)
            ELSE IF c.op = "BREAK" THEN end(c.p, "ok", "nil", v)
            ELSE IF c.op = "CONTINUE" THEN again(c.p, v, ret.shown)
            ELSE \E pi \in {parseInformation(c.p)} :
              IF pi.err # "nil" THEN end(pi.p, "err", pi.err, v)
              ELSE IF pi.p.indefinite /\ isBreak(pi.p) THEN end(pi.p, "ok", "nil", v)
              ELSE IF pi.major < cborByteString \/ pi.major > cborTextString
                   THEN end(pi.p, "err", "KeyNotString", v)
              ELSE \E k \in {decodeString(pi.p)} :
                IF k.st # "ok" THEN end(k.p, k.st, "nil", v)
                ELSE IF strict /\ k.v \in ret.shown THEN end(k.p, "err", "StrictDup", v)
                ELSE \E f \in {IF FieldByName(t, k.v) # 0 THEN FieldByName(t, k.v)
                               ELSE FieldByName(t, lookupStructTag(t, k.v, ret.array))} :
                        value(k.p, k.v, f)

NextLoop == LoopEnter \/ ChunkStep \/ ElemStep \/ PairStep \/ EntryStep

\* a call that began goes on: no step of Decode waits for anything but the
\* source, which answers every Read
SpecLoop == InitLoop /\ [][NextLoop]_vars /\ WF_vars(NextLoop)

\* C30: Decode eventually returns, with a value or an error, and every
\* iteration after which a loop goes on has consumed at least one byte of
\* the source.
C30_Termination ==
    /\ <>(ret.op = "Decode" /\ ret.st \in {"ok", "err"})
    /\ [][ret.op = "loop" /\ ret'.op = "loop" => Len(parser'.r) < Len(parser.r)]_vars
====
